---------------------------- MODULE Spec2Model ----------------------------
(***************************************************************************)
(* A model of the DrivAer_adjoint geometry utilities:                      *)
(*   scripts/genXYZ.py               corner-based FFD lattice + Plot3D file *)
(*   old_setup/generate_ffd_offset.py  STL bounds + offset-box FFD lattice  *)
(*   old_setup/convert_bin_to_ascii.py binary STL to text STL               *)
(*   scripts/xyz_to_openfoam.py      Plot3D file to control-point dictionary *)
(*   scripts/convert_XYZ_to_VTK.py   Plot3D file to structured VTK grid     *)
(*   scripts/csv_to_vtk_converter.py control-point CSV files to VTP + index *)
(*                                                                         *)
(* Numbers.  Python/numpy floats are modelled as exact extended rationals: *)
(* a pair <<n, d>> in lowest terms with d > 0 is the number n/d, and       *)
(* <<1,0>>, <<-1,0>>, <<0,0>> are +inf, -inf and nan.  Binary rounding of  *)
(* float64 arithmetic is not modelled; rounding done by text formatting    *)
(* (%f, .6f) and the decoding of IEEE-754 binary32 values are.             *)
(*                                                                         *)
(* Files.  An STL file is its sequence of bytes (0..255).  A structured    *)
(* grid (.xyz) file is a sequence of lines, a line a sequence of           *)
(* whitespace-separated tokens, a token its sequence of character codes.   *)
(* Arrays keep the source's 0-based indices: they are functions on 0..n-1. *)
(***************************************************************************)
EXTENDS Integers, Sequences, FiniteSets, TLC

-----------------------------------------------------------------------------
(* Bounds of the model                                                     *)

\* largest point count per axis drawn as an input
MaxN == 3
\* largest number of blocks handed to writeFFDFile
MaxBlocks == 2
\* corner coordinates of the input boxes are drawn from 0..MaxCoord
MaxCoord == 2

-----------------------------------------------------------------------------
(* Extended rational arithmetic (Python float / numpy float64)             *)

Abs(n) == IF n < 0 THEN -n ELSE n

Sign(n) == IF n < 0 THEN -1 ELSE IF n > 0 THEN 1 ELSE 0

RECURSIVE GCD(_, _)
GCD(a, b) == IF b = 0 THEN a ELSE GCD(b, a % b)

\* the float n/d: lowest terms, positive denominator; d = 0 gives inf/-inf/nan
Norm(n, d) ==
    IF d = 0 THEN <<Sign(n), 0>>
    ELSE LET g == GCD(Abs(n), Abs(d))
             s == IF d < 0 THEN -1 ELSE 1
         IN  <<(s * n) \div g, (s * d) \div g>>

RInt(n) == <<n, 1>>

Inf == <<1, 0>>

NegInf == <<-1, 0>>

NaN == <<0, 0>>

IsNaN(a) == a = NaN

IsFinite(a) == a[2] # 0

\* a + b
RAdd(a, b) ==
    IF IsNaN(a) \/ IsNaN(b) THEN NaN
    ELSE IF a[2] = 0 /\ b[2] = 0 THEN (IF a = b THEN a ELSE NaN)
    ELSE Norm(a[1] * b[2] + b[1] * a[2], a[2] * b[2])

RNeg(a) == <<-a[1], a[2]>>

\* a - b
RSub(a, b) == RAdd(a, RNeg(b))

\* a * b  (0 * inf = nan)
RMul(a, b) == Norm(a[1] * b[1], a[2] * b[2])

\* a / k for an integer k > 0
RDivInt(a, k) == Norm(a[1], a[2] * k)

\* a < b  (False when either is nan)
RLt(a, b) ==
    IF IsNaN(a) \/ IsNaN(b) THEN FALSE
    ELSE IF a[2] = 0 /\ b[2] = 0 THEN a[1] < b[1]
    ELSE a[1] * b[2] < b[1] * a[2]

RLe(a, b) == ~IsNaN(a) /\ ~IsNaN(b) /\ ~RLt(b, a)

\* Python's min(a, b) and max(a, b): the first argument unless the second
\* is strictly smaller (larger)
PyMin(a, b) == IF RLt(b, a) THEN b ELSE a

PyMax(a, b) == IF RLt(a, b) THEN b ELSE a

-----------------------------------------------------------------------------
(* numpy.linspace(start, stop, num), endpoint included                     *)

\* element i of np.linspace(start, stop, num), for 0 <= i < num
LinspaceAt(start, stop, num, i) ==
    LET div   == num - 1
        delta == RSub(stop, start)
    IN  IF num > 1 /\ i = num - 1 THEN stop
        ELSE IF div > 0
             THEN LET step == RDivInt(delta, div)
                  IN  IF step = RInt(0)
                      THEN RAdd(RMul(RDivInt(RInt(i), div), delta), start)
                      ELSE RAdd(RMul(RInt(i), step), start)
             ELSE RAdd(RMul(RInt(i), delta), start)

\* np.linspace raises ValueError for a negative number of samples
LinspaceRaises(num) == num < 0

Linspace(start, stop, num) ==
    [i \in 0..(num - 1) |-> LinspaceAt(start, stop, num, i)]

-----------------------------------------------------------------------------
(* Text formatting: '%d', '%f' and ':.6f'                                  *)

RECURSIVE ConcatFor(_, _, _)
\* F(from) \o F(from+1) \o ... \o F(to-1): what a loop "for x in range(from,
\* to)" appends
ConcatFor(F(_), from, to) ==
    IF from >= to THEN <<>> ELSE F(from) \o ConcatFor(F, from + 1, to)

RECURSIVE DecDigits(_)
\* the decimal digits of n >= 0, as character codes
DecDigits(n) ==
    IF n < 10 THEN <<48 + n>> ELSE DecDigits(n \div 10) \o <<48 + (n % 10)>>

\* '%d' % n
FmtD(n) == IF n < 0 THEN <<45>> \o DecDigits(-n) ELSE DecDigits(n)

\* n/d (d > 0, n >= 0) rounded to the nearest integer, ties to even
RoundHalfEven(n, d) ==
    LET q == n \div d
        r == n % d
    IN  IF 2 * r < d THEN q
        ELSE IF 2 * r > d THEN q + 1
        ELSE IF q % 2 = 0 THEN q ELSE q + 1

\* the digits of n >= 0 left-padded with '0' to width w
ZeroPad(n, w) ==
    LET ds == DecDigits(n)
    IN  [x \in 1..(w - Len(ds)) |-> 48] \o ds

\* 10^6: '%f' and ':.6f' keep six decimals
Micro == 1000000

\* '%f' % a, and f"{a:.6f}": sign, integer part, '.', six decimals
Fmt6(a) ==
    IF a = NaN THEN <<110, 97, 110>>
    ELSE IF a = Inf THEN <<105, 110, 102>>
    ELSE IF a = NegInf THEN <<45, 105, 110, 102>>
    ELSE LET m == RoundHalfEven(Abs(a[1]) * Micro, a[2])
         IN  (IF a[1] < 0 THEN <<45>> ELSE <<>>)
             \o DecDigits(m \div Micro) \o <<46>> \o ZeroPad(m % Micro, 6)

-----------------------------------------------------------------------------
(* Files                                                                   *)

\* a file that does not exist, and a file holding lines (or bytes)
NoFile == [exists |-> FALSE, data |-> <<>>]

FileOf(d) == [exists |-> TRUE, data |-> d]

-----------------------------------------------------------------------------
(* scripts/genXYZ.py                                                       *)

\* the 8 corners of the box [lo, hi], in the ordering returnBlockPoints
\* documents; lo and hi are 3-tuples of floats
BoxCorners(lo, hi) ==
    [c \in 0..7 |->
        CASE c = 0 -> <<lo[1], lo[2], lo[3]>>
          [] c = 1 -> <<hi[1], lo[2], lo[3]>>
          [] c = 2 -> <<hi[1], lo[2], hi[3]>>
          [] c = 3 -> <<lo[1], lo[2], hi[3]>>
          [] c = 4 -> <<lo[1], hi[2], lo[3]>>
          [] c = 5 -> <<hi[1], hi[2], lo[3]>>
          [] c = 6 -> <<hi[1], hi[2], hi[3]>>
          [] c = 7 -> <<lo[1], hi[2], hi[3]>>]

\* BlockPoint with the z-direction edges taken to the wrong corners (0->2
\* and 1->3 instead of 0->3 and 1->2)
BlockPointCrossed(corners, nx, ny, nz, i, j, k, idim) ==
    LET edge_yMin_xMin == LinspaceAt(corners[0][idim], corners[2][idim], nz, k)
        edge_yMin_xMax == LinspaceAt(corners[1][idim], corners[3][idim], nz, k)
        edge_yMax_xMin == LinspaceAt(corners[4][idim], corners[7][idim], nz, k)
        edge_yMax_xMax == LinspaceAt(corners[5][idim], corners[6][idim], nz, k)
        edge_yMin == LinspaceAt(edge_yMin_xMin, edge_yMin_xMax, nx, i)
        edge_yMax == LinspaceAt(edge_yMax_xMin, edge_yMax_xMax, nx, i)
    IN  LinspaceAt(edge_yMin, edge_yMax, ny, j)

\* channel idim (1..3) of lattice point (i, j, k), as the three nested
\* linspace calls compute it
BlockPoint(corners, nx, ny, nz, i, j, k, idim) ==
    LET edge_yMin_xMin == LinspaceAt(corners[0][idim], corners[3][idim], nz, k)
        edge_yMin_xMax == LinspaceAt(corners[1][idim], corners[2][idim], nz, k)
        edge_yMax_xMin == LinspaceAt(corners[4][idim], corners[7][idim], nz, k)
        edge_yMax_xMax == LinspaceAt(corners[5][idim], corners[6][idim], nz, k)
        edge_yMin == LinspaceAt(edge_yMin_xMin, edge_yMin_xMax, nx, i)
        edge_yMax == LinspaceAt(edge_yMax_xMin, edge_yMax_xMax, nx, i)
    IN  LinspaceAt(edge_yMin, edge_yMax, ny, j)

\* np.zeros([nx,ny,nz,3]) and every np.linspace raise ValueError on a
\* negative count
returnBlockPointsRaises(nx, ny, nz) ==
    LinspaceRaises(nx) \/ LinspaceRaises(ny) \/ LinspaceRaises(nz)

\* the lattice: (i, j, k) |-> <<x, y, z>>
returnBlockPoints(corners, nx, ny, nz) ==
    [p \in (0..(nx - 1)) \X (0..(ny - 1)) \X (0..(nz - 1)) |->
        <<BlockPoint(corners, nx, ny, nz, p[1], p[2], p[3], 1),
          BlockPoint(corners, nx, ny, nz, p[1], p[2], p[3], 2),
          BlockPoint(corners, nx, ny, nz, p[1], p[2], p[3], 3)>>]

\* ChannelTokens with the loops nested the other way round (i outermost)
ChannelTokensIFirst(pts, bnx, bny, bnz, c) ==
    ConcatFor(LAMBDA i :
        ConcatFor(LAMBDA j :
            ConcatFor(LAMBDA k : <<Fmt6(pts[<<i, j, k>>][c])>>, 0, bnz),
            0, bny),
        0, bnx)

\* the tokens one "for k: for j: for i: f.write('%f ' % pts[i,j,k,c])"
\* nest writes
ChannelTokens(pts, bnx, bny, bnz, c) ==
    ConcatFor(LAMBDA k :
        ConcatFor(LAMBDA j :
            ConcatFor(LAMBDA i : <<Fmt6(pts[<<i, j, k>>][c])>>, 0, bnx),
            0, bny),
        0, bnz)

RECURSIVE BlockLines(_, _, _, _, _, _)
\* the lines blocks b..nb write; open holds the tokens of the line not yet
\* ended by '\n' (the z values are not followed by a newline)
BlockLines(b, nb, dx, dy, dz, st) ==
    IF b > nb
    THEN (IF st.open = <<>> THEN st.lines ELSE Append(st.lines, st.open))
    ELSE BlockLines(b + 1, nb, dx, dy, dz,
            [lines |-> st.lines
                \o <<st.open \o ChannelTokens(st.pts[b], dx[b], dy[b], dz[b], 1)>>
                \o <<ChannelTokens(st.pts[b], dx[b], dy[b], dz[b], 2)>>,
             open |-> ChannelTokens(st.pts[b], dx[b], dy[b], dz[b], 3),
             pts |-> st.pts])

\* the lines of the file writeFFDFile(fileName, nb, dx, dy, dz, pts) writes
writeFFDFile(nb, dx, dy, dz, pts) ==
    BlockLines(1, nb, dx, dy, dz,
        [lines |-> << <<FmtD(nb)>>,
                      ConcatFor(LAMBDA b :
                          <<FmtD(dx[b]), FmtD(dy[b]), FmtD(dz[b])>>, 1, nb + 1) >>,
         open |-> <<>>,
         pts |-> pts])

-----------------------------------------------------------------------------
(* Bytes and text                                                          *)

Min2(a, b) == IF a < b THEN a ELSE b

SetMin(S) == CHOOSE x \in S : \A y \in S : x <= y

SetMax(S) == CHOOSE x \in S : \A y \in S : y <= x

\* f.read(k) with the file position at pos: the bytes still there, at most k
ReadAt(bytes, pos, k) == SubSeq(bytes, pos + 1, Min2(pos + k, Len(bytes)))

\* the file position after that read
PosAfter(bytes, pos, k) == Min2(pos + k, Len(bytes))

\* s.startswith(prefix)
StartsWith(s, prefix) ==
    Len(s) >= Len(prefix) /\ SubSeq(s, 1, Len(prefix)) = prefix

\* 'solid' and 'vertex'
KwSolid == <<115, 111, 108, 105, 100>>

KwVertex == <<118, 101, 114, 116, 101, 120>>

\* str.isspace() of a code point
IsSpace(c) ==
    \/ c \in 9..13
    \/ c \in 28..32
    \/ c \in {133, 160, 5760, 8232, 8233, 8239, 8287, 12288}
    \/ c \in 8192..8202

\* s.strip()
Strip(s) ==
    LET keep == {i \in 1..Len(s) : ~IsSpace(s[i])}
    IN  IF keep = {} THEN <<>> ELSE SubSeq(s, SetMin(keep), SetMax(keep))

\* the indices 1..n that satisfy Test, in increasing order
Indices(n, Test(_)) == SelectSeq([i \in 1..n |-> i], Test)

\* s.split(): the maximal runs of non-space characters, in order
Split(s) ==
    LET n == Len(s)
        starts == Indices(n, LAMBDA i : ~IsSpace(s[i]) /\ (i = 1 \/ IsSpace(s[i - 1])))
        stops  == Indices(n, LAMBDA i : ~IsSpace(s[i]) /\ (i = n \/ IsSpace(s[i + 1])))
    IN  [k \in 1..Len(starts) |-> SubSeq(s, starts[k], stops[k])]

\* f.readline() on a file opened 'rb', from the start: up to and including
\* the first b'\n'
FirstLine(bytes) ==
    LET nl == {i \in 1..Len(bytes) : bytes[i] = 10}
    IN  IF nl = {} THEN bytes ELSE SubSeq(bytes, 1, SetMin(nl))

\* bytes.decode('ascii') raises UnicodeDecodeError
AsciiDecodeRaises(bytes) == \E i \in 1..Len(bytes) : bytes[i] >= 128

\* whether byte i exists and lies in lo..hi
Cont(bytes, i, lo, hi) == i >= 1 /\ i <= Len(bytes) /\ bytes[i] \in lo..hi

\* the length of the UTF-8 sequence a lead byte starts (0: not a lead byte)
Utf8Len(b) ==
    IF b < 128 THEN 1
    ELSE IF b \in 194..223 THEN 2
    ELSE IF b \in 224..239 THEN 3
    ELSE IF b \in 240..244 THEN 4
    ELSE 0

\* whether a well-formed UTF-8 sequence starts at byte i: the lead byte,
\* the second byte in the range the lead byte allows, continuation bytes
Utf8SeqAt(bytes, i) ==
    LET b == bytes[i]
        lo2 == IF b = 224 THEN 160 ELSE IF b = 240 THEN 144 ELSE 128
        hi2 == IF b = 237 THEN 159 ELSE IF b = 244 THEN 143 ELSE 191
    IN  /\ Utf8Len(b) > 0
        /\ Utf8Len(b) >= 2 => Cont(bytes, i + 1, lo2, hi2)
        /\ \A d \in 2..(Utf8Len(b) - 1) : Cont(bytes, i + d, 128, 191)

\* strict UTF-8 decoding (open(.., 'r') under a UTF-8 locale) succeeds:
\* every byte starts a well-formed sequence or continues one that started
\* at most 3 bytes before it
Utf8Valid(bytes) ==
    \A i \in 1..Len(bytes) :
        IF bytes[i] \in 128..191
        THEN \E d \in 1..3 :
                /\ i - d >= 1
                /\ bytes[i - d] >= 192
                /\ Utf8Len(bytes[i - d]) > d
                /\ Utf8SeqAt(bytes, i - d)
                /\ \A x \in 1..(d - 1) : bytes[i - x] \in 128..191
        ELSE Utf8SeqAt(bytes, i)

\* the code point of the UTF-8 sequence that starts at byte i
Utf8CodePoint(bytes, i) ==
    LET b == bytes[i]
        n == Utf8Len(b)
    IN  IF n = 1 THEN b
        ELSE IF n = 2 THEN (b - 192) * 64 + (bytes[i + 1] - 128)
        ELSE IF n = 3 THEN (b - 224) * 4096 + (bytes[i + 1] - 128) * 64
                           + (bytes[i + 2] - 128)
        ELSE (b - 240) * 262144 + (bytes[i + 1] - 128) * 4096
             + (bytes[i + 2] - 128) * 64 + (bytes[i + 3] - 128)

\* the code points of valid UTF-8 bytes: one per byte that is not a
\* continuation byte
Utf8Decode(bytes) ==
    LET leads == Indices(Len(bytes), LAMBDA i : bytes[i] \notin 128..191)
    IN  [k \in 1..Len(leads) |-> Utf8CodePoint(bytes, leads[k])]

\* the lines "for line in f" yields for a text file of valid UTF-8 bytes,
\* decoded: a line ends with '\n', '\r' or '\r\n' (universal newlines); the
\* line ends are dropped here, every use strips the line
TextLines(bytes) ==
    LET n == Len(bytes)
        ends == Indices(n, LAMBDA i :
                    \/ bytes[i] = 10
                    \/ bytes[i] = 13 /\ ~(i < n /\ bytes[i + 1] = 10))
        End(k) == ends[k]
        Start(k) == IF k = 1 THEN 1 ELSE End(k - 1) + 1
        Stop(k) == IF bytes[End(k)] = 10 /\ End(k) > 1 /\ bytes[End(k) - 1] = 13
                   THEN End(k) - 2 ELSE End(k) - 1
        last == IF ends = <<>> THEN 0 ELSE ends[Len(ends)]
    IN  [k \in 1..Len(ends) |->
            Utf8Decode(SubSeq(bytes, Start(k), Stop(k)))]
        \o (IF last < n THEN <<Utf8Decode(SubSeq(bytes, last + 1, n))>>
            ELSE <<>>)

-----------------------------------------------------------------------------
(* Numbers in files: float(token), struct.unpack('I'), struct.unpack('f')  *)

RECURSIVE Pow(_, _)
\* b^k by repeated squaring
Pow(b, k) ==
    IF k = 0 THEN 1
    ELSE LET h == Pow(b, k \div 2)
         IN  IF k % 2 = 1 THEN h * h * b ELSE h * h

IsDigit(c) == c \in 48..57

AllDigits(s) == \A i \in 1..Len(s) : IsDigit(s[i])

RECURSIVE DigitsValue(_, _, _)
DigitsValue(s, i, acc) ==
    IF i > Len(s) THEN acc ELSE DigitsValue(s, i + 1, 10 * acc + (s[i] - 48))

\* ASCII lower case of a character
Lower(c) == IF c \in 65..90 THEN c + 32 ELSE c

\* float(tok) for a token without white space: [ok, val]; ok = FALSE is a
\* ValueError.  Decimal and exponent forms, inf, infinity and nan are read;
\* digit-group underscores and non-ASCII digits are not modelled (no input of
\* the model holds them).  The value is exact: rounding to binary64 is not
\* modelled.
ParseFloat(tok) ==
    LET signed == Len(tok) > 0 /\ tok[1] \in {43, 45}
        neg    == Len(tok) > 0 /\ tok[1] = 45
        body   == IF signed THEN SubSeq(tok, 2, Len(tok)) ELSE tok
        low    == [i \in 1..Len(body) |-> Lower(body[i])]
        epos   == {i \in 1..Len(body) : low[i] = 101}
        mant   == IF epos = {} THEN body ELSE SubSeq(body, 1, SetMin(epos) - 1)
        expo   == IF epos = {} THEN <<>>
                  ELSE SubSeq(body, SetMin(epos) + 1, Len(body))
        esign  == Len(expo) > 0 /\ expo[1] \in {43, 45}
        edig   == IF esign THEN SubSeq(expo, 2, Len(expo)) ELSE expo
        dots   == {i \in 1..Len(mant) : mant[i] = 46}
        ipart  == IF dots = {} THEN mant ELSE SubSeq(mant, 1, SetMin(dots) - 1)
        fpart  == IF dots = {} THEN <<>>
                  ELSE SubSeq(mant, SetMin(dots) + 1, Len(mant))
        wellformed ==
            /\ AllDigits(ipart) /\ AllDigits(fpart)
            /\ Len(ipart) + Len(fpart) > 0
            /\ (epos # {} => (Len(edig) > 0 /\ AllDigits(edig)))
        m      == DigitsValue(ipart \o fpart, 1, 0)
        e      == (IF Len(expo) > 0 /\ expo[1] = 45 THEN -1 ELSE 1)
                      * DigitsValue(edig, 1, 0) - Len(fpart)
        mag    == IF e >= 0 THEN Norm(m * Pow(10, e), 1) ELSE Norm(m, Pow(10, -e))
    IN  IF low = <<105, 110, 102>> \/ low = <<105, 110, 102, 105, 110, 105, 116, 121>>
        THEN [ok |-> TRUE, val |-> IF neg THEN NegInf ELSE Inf]
        ELSE IF low = <<110, 97, 110>> THEN [ok |-> TRUE, val |-> NaN]
        ELSE IF wellformed
             THEN [ok |-> TRUE, val |-> IF neg THEN RNeg(mag) ELSE mag]
             ELSE [ok |-> FALSE, val |-> NaN]

\* struct.unpack('I', b)[0] for 4 bytes, little-endian
UnpackU32(b) == b[1] + 256 * b[2] + 65536 * b[3] + 16777216 * b[4]

\* sig / 2^k in lowest terms, for 0 < sig < 2^24: the common powers of two
\* are taken out first
HalveOut(sig, k) ==
    LET t == SetMax({x \in 0..Min2(k, 24) : sig % Pow(2, x) = 0})
    IN  Norm(sig \div Pow(2, t), Pow(2, k - t))

\* struct.unpack('f', b)[0] for 4 bytes, little-endian IEEE-754 binary32:
\* sign bit, 8 exponent bits (bias 127), 23 fraction bits
UnpackF32(b) ==
    LET sgn  == IF b[4] >= 128 THEN -1 ELSE 1
        e    == (b[4] % 128) * 2 + (b[3] \div 128)
        frac == (b[3] % 128) * 65536 + b[2] * 256 + b[1]
        sig  == IF e = 0 THEN frac ELSE 8388608 + frac
        p    == (IF e = 0 THEN 1 ELSE e) - 150
        mag  == IF sig = 0 THEN RInt(0)
                ELSE IF p >= 0 THEN RInt(sig * Pow(2, p))
                ELSE HalveOut(sig, -p)
    IN  IF e = 255 THEN (IF frac = 0 THEN <<sgn, 0>> ELSE NaN)
        ELSE IF sgn < 0 THEN RNeg(mag) ELSE mag

-----------------------------------------------------------------------------
(* old_setup/generate_ffd_offset.py: reading the STL file                  *)

\* sizes of the binary STL layout: header, triangle count, one normal or
\* vertex (3 floats), the attribute trailer
HeaderLen == 80

CountLen == 4

Vec3Len == 12

AttrLen == 2

\* is_ascii_stl(filepath): a missing file and a failed decode both end in
\* "return False"
is_ascii_stl(file) ==
    IF ~file.exists THEN FALSE
    ELSE LET header == ReadAt(file.data, 0, HeaderLen)
         IN  IF StartsWith(header, KwSolid)
             THEN LET raw == FirstLine(file.data)
                  IN  IF AsciiDecodeRaises(raw) THEN FALSE
                      ELSE StartsWith(Strip(raw), KwSolid)
             ELSE FALSE

\* lines 38-39: the running bounds before any vertex is read
NoBounds == [min |-> <<Inf, Inf, Inf>>, max |-> <<NegInf, NegInf, NegInf>>]

\* lines 50-52 and 63-65: the running bounds after the vertex (x, y, z)
AddVertex(acc, x, y, z) ==
    [min |-> <<PyMin(acc.min[1], x), PyMin(acc.min[2], y), PyMin(acc.min[3], z)>>,
     max |-> <<PyMax(acc.max[1], x), PyMax(acc.max[2], y), PyMax(acc.max[3], z)>>]

\* what get_stl_bounds ends with: a return value or an exception
Returned(acc) == [exc |-> "none", min |-> acc.min, max |-> acc.max]

Raised(e) == [exc |-> e, min |-> <<NaN, NaN, NaN>>, max |-> <<NaN, NaN, NaN>>]

RECURSIVE AsciiScan(_, _, _)
\* lines 44-52: "for line in f" from line l on
AsciiScan(lines, l, acc) ==
    IF l > Len(lines) THEN Returned(acc)
    ELSE LET stripped == Strip(lines[l])
             parts == Split(stripped)
         IN  IF StartsWith(stripped, KwVertex) /\ Len(parts) = 4
             THEN LET x == ParseFloat(parts[2])
                      y == ParseFloat(parts[3])
                      z == ParseFloat(parts[4])
                  IN  IF x.ok /\ y.ok /\ z.ok
                      THEN AsciiScan(lines, l + 1, AddVertex(acc, x.val, y.val, z.val))
                      ELSE Raised("ValueError")
             ELSE AsciiScan(lines, l + 1, acc)

RECURSIVE BinaryScan(_, _, _, _, _, _)
\* lines 59-66: triangle i of num_triangles, about to read vertex j (0..2;
\* j = 0 first skips the normal, j = 3 skips the attribute), file position pos
BinaryScan(bytes, num_triangles, i, j, pos, acc) ==
    IF i >= num_triangles THEN Returned(acc)
    ELSE IF j = 3
    THEN BinaryScan(bytes, num_triangles, i + 1, 0, PosAfter(bytes, pos, AttrLen), acc)
    ELSE LET at == IF j = 0 THEN PosAfter(bytes, pos, Vec3Len) ELSE pos
             b  == ReadAt(bytes, at, Vec3Len)
         IN  IF Len(b) < Vec3Len THEN Raised("struct.error")
             ELSE BinaryScan(bytes, num_triangles, i, j + 1,
                             PosAfter(bytes, at, Vec3Len),
                             AddVertex(acc, UnpackF32(SubSeq(b, 1, 4)),
                                            UnpackF32(SubSeq(b, 5, 8)),
                                            UnpackF32(SubSeq(b, 9, 12))))

\* lines 41-42 and 53-54: the line get_stl_bounds prints on the path it takes
ReadingLine(file) ==
    IF is_ascii_stl(file) THEN "Reading ASCII STL file..."
    ELSE "Reading binary STL file..."

\* get_stl_bounds(stl_file)
get_stl_bounds(file) ==
    IF is_ascii_stl(file)
    THEN IF ~Utf8Valid(file.data) THEN Raised("UnicodeDecodeError")
         ELSE AsciiScan(TextLines(file.data), 1, NoBounds)
    ELSE IF ~file.exists THEN Raised("FileNotFoundError")
    ELSE LET cnt == ReadAt(file.data, PosAfter(file.data, 0, HeaderLen), CountLen)
         IN  IF Len(cnt) < CountLen THEN Raised("struct.error")
             ELSE BinaryScan(file.data, UnpackU32(cnt), 0, 0,
                             HeaderLen + CountLen, NoBounds)

-----------------------------------------------------------------------------
(* old_setup/generate_ffd_offset.py: the offset box                        *)

\* an optional argument: <<>> is None, <<v>> is the value v
None == <<>>

Some(v) == <<v>>

\* lines 93-99: the bounds with the X overrides applied
OverrideX(b, x_start, x_end) ==
    [min |-> IF x_start # None THEN <<x_start[1], b.min[2], b.min[3]>> ELSE b.min,
     max |-> IF x_end # None THEN <<x_end[1], b.max[2], b.max[3]>> ELSE b.max]

\* lines 101-107: the box with the margins applied
OffsetBox(b, offset_x, offset_y, offset_z) ==
    [min |-> <<RSub(b.min[1], offset_x), RSub(b.min[2], offset_y),
               RSub(b.min[3], offset_z)>>,
     max |-> <<RAdd(b.max[1], offset_x), RAdd(b.max[2], offset_y),
               RAdd(b.max[3], offset_z)>>]

\* AxisCoords with the y axis subdivided by the z count
AxisCoordsMixed(box, n) ==
    [x_coords |-> Linspace(box.min[1], box.max[1], n[1]),
     y_coords |-> Linspace(box.min[2], box.max[2], n[3]),
     z_coords |-> Linspace(box.min[3], box.max[3], n[3])]

\* lines 114-117: x_coords, y_coords, z_coords of the box
AxisCoords(box, n) ==
    [x_coords |-> Linspace(box.min[1], box.max[1], n[1]),
     y_coords |-> Linspace(box.min[2], box.max[2], n[2]),
     z_coords |-> Linspace(box.min[3], box.max[3], n[3])]

\* lines 130-134 (and 138-142, 146-150): the list of one coordinate, axis
\* 1, 2 or 3 of the (i, j, k) the loops are at
CoordList(cs, n, axis) ==
    ConcatFor(LAMBDA k :
        ConcatFor(LAMBDA j :
            ConcatFor(LAMBDA i :
                << Fmt6(IF axis = 1 THEN cs.x_coords[i]
                        ELSE IF axis = 2 THEN cs.y_coords[j]
                        ELSE cs.z_coords[k]) >>,
                0, n[1]),
            0, n[2]),
        0, n[3])

\* lines 122-151: the lines written to output_file
FfdFileLines(cs, n) ==
    << <<FmtD(1)>>,
       <<FmtD(n[1]), FmtD(n[2]), FmtD(n[3])>>,
       CoordList(cs, n, 1),
       CoordList(cs, n, 2),
       CoordList(cs, n, 3) >>

-----------------------------------------------------------------------------
(* Text formatting: ':.8g' and ':.6e'                                      *)

\* how many decimals of a quotient are worked out before rounding
FracLen == 16

RECURSIVE FracDigits(_, _, _)
\* the first k decimals of r/d (0 <= r < d) by long division, as character
\* codes, and the remainder left over
FracDigits(r, d, k) ==
    IF k = 0 THEN [digits |-> <<>>, rem |-> r]
    ELSE LET t == FracDigits((10 * r) % d, d, k - 1)
         IN  [digits |-> <<48 + ((10 * r) \div d)>> \o t.digits, rem |-> t.rem]

\* n/d (n > 0, d > 0) correctly rounded to p significant digits, ties to
\* even: the digits as an integer m (10^(p-1) <= m < 10^p) and the decimal
\* exponent X of the first one, n/d ~ m * 10^(X-p+1)
SigDigits(n, d, p) ==
    LET int   == DecDigits(n \div d)
        frac  == FracDigits(n % d, d, FracLen)
        all   == int \o frac.digits
        s     == SetMin({i \in 1..Len(all) : all[i] # 48})
        at(i) == IF i <= Len(all) THEN all[i] - 48 ELSE 0
        m     == DigitsValue([i \in 1..p |-> 48 + at(s + i - 1)], 1, 0)
        next  == at(s + p)
        more  == frac.rem # 0 \/ \E i \in (s + p + 1)..Len(all) : all[i] # 48
        up    == next > 5 \/ (next = 5 /\ (more \/ m % 2 = 1))
        X     == Len(int) - s
    IN  IF up /\ m + 1 = Pow(10, p) THEN [m |-> Pow(10, p - 1), X |-> X + 1]
        ELSE [m |-> IF up THEN m + 1 ELSE m, X |-> X]

\* 'e', the sign and at least two digits of the exponent
ExpSuffix(X) ==
    <<101>> \o (IF X < 0 THEN <<45>> ELSE <<43>>) \o
    (IF Abs(X) < 10 THEN ZeroPad(Abs(X), 2) ELSE DecDigits(Abs(X)))

\* the text of nan and the infinities under any float format
NonFinite(a) ==
    IF a = NaN THEN <<110, 97, 110>>
    ELSE IF a = Inf THEN <<105, 110, 102>>
    ELSE <<45, 105, 110, 102>>

\* a sign before the text of a negative number
Signed(a, text) == (IF a[1] < 0 THEN <<45>> ELSE <<>>) \o text

\* one digit, '.', six decimals and the exponent, from the seven digits
EText(ds, X) == <<ds[1], 46>> \o SubSeq(ds, 2, 7) \o ExpSuffix(X)

ETextOf(sd) == EText(DecDigits(sd.m), sd.X)

\* f"{a:.6e}": one digit, '.', six decimals, the exponent
FmtE6(a) ==
    IF ~IsFinite(a) THEN NonFinite(a)
    ELSE IF a[1] = 0 THEN <<48, 46, 48, 48, 48, 48, 48, 48>> \o ExpSuffix(0)
    ELSE Signed(a, ETextOf(SigDigits(Abs(a[1]), a[2], 7)))

\* the eight digits ds of a number, the last non-zero one being at keep,
\* with the first one worth 10^X: the exponent form when X is below -4 or
\* at least 8, trailing zeros removed
GText(ds, keep, X) ==
    IF X < -4 \/ X >= 8
    THEN <<ds[1]>> \o (IF keep > 1 THEN <<46>> \o SubSeq(ds, 2, keep) ELSE <<>>)
         \o ExpSuffix(X)
    ELSE IF X < 0
    THEN <<48, 46>> \o [i \in 1..(-X - 1) |-> 48] \o SubSeq(ds, 1, keep)
    ELSE SubSeq(ds, 1, X + 1)
         \o (IF keep > X + 1 THEN <<46>> \o SubSeq(ds, X + 2, keep) ELSE <<>>)

LastNonZero(ds) == SetMax({i \in 1..Len(ds) : ds[i] # 48})

GTextOf(sd) == GText(DecDigits(sd.m), LastNonZero(DecDigits(sd.m)), sd.X)

\* f"{a:.8g}": eight significant digits, trailing zeros removed.  (The sign
\* of a zero is not modelled: -0.0 prints as 0.)
Fmt8g(a) ==
    IF ~IsFinite(a) THEN NonFinite(a)
    ELSE IF a[1] = 0 THEN <<48>>
    ELSE Signed(a, GTextOf(SigDigits(Abs(a[1]), a[2], 8)))

-----------------------------------------------------------------------------
(* scripts/xyz_to_openfoam.py                                              *)

\* int(s) for a string s without white space: [ok, val]; ok = FALSE is a
\* ValueError.  An optional sign and decimal digits are read; digit-group
\* underscores and non-ASCII digits are not modelled (no input of the model
\* holds them).
ParseInt(s) ==
    LET signed == Len(s) > 0 /\ s[1] \in {43, 45}
        body   == IF signed THEN SubSeq(s, 2, Len(s)) ELSE s
    IN  IF Len(body) > 0 /\ AllDigits(body)
        THEN [ok |-> TRUE,
              val |-> (IF s[1] = 45 THEN -1 ELSE 1) * DigitsValue(body, 1, 0)]
        ELSE [ok |-> FALSE, val |-> 0]

\* int(line.strip()): the line must hold exactly one token
IntOfLine(line) ==
    IF Len(line) = 1 THEN ParseInt(line[1]) ELSE [ok |-> FALSE, val |-> 0]

\* a list of parsed tokens, each [ok, val]: whether every one was read, and
\* the values
ParsedList(ps) ==
    [ok   |-> \A t \in 1..Len(ps) : ps[t].ok,
     vals |-> [t \in 1..Len(ps) |-> ps[t].val]]

\* [int(x) for x in line.strip().split()]
IntsOfLine(line) == ParsedList([t \in 1..Len(line) |-> ParseInt(line[t])])

\* [float(x) for x in line.strip().split()]
FloatsOfLine(line) == ParsedList([t \in 1..Len(line) |-> ParseFloat(line[t])])

\* what parse_xyz_file ends with when it raises e
XyzRaised(e) == [exc |-> e, points |-> <<>>, dims |-> <<0, 0, 0>>]

\* PointRows filling the third column from the end of the list
PointRowsZBackwards(x_coords, y_coords, z_coords, n_points) ==
    [n \in 0..(n_points - 1) |->
        <<x_coords[n + 1], y_coords[n + 1], z_coords[n_points - n]>>]

\* lines 61-64: row n of the (n_points, 3) array is (x[n], y[n], z[n])
PointRows(x_coords, y_coords, z_coords, n_points) ==
    [n \in 0..(n_points - 1) |->
        <<x_coords[n + 1], y_coords[n + 1], z_coords[n + 1]>>]

\* lines[l - 1] when the file has that line
LineAt(lines, l) == IF l <= Len(lines) THEN lines[l] ELSE <<>>

\* lines 47-71, count lines being read and x, y, z what lines 48-50 make
\* of the third, fourth and fifth of them
CheckChannels(count, dims, x, y, z) ==
    IF count < 3 THEN XyzRaised("IndexError")
    ELSE IF ~x.ok THEN XyzRaised("ValueError")
    ELSE IF count < 4 THEN XyzRaised("IndexError")
    ELSE IF ~y.ok THEN XyzRaised("ValueError")
    ELSE IF count < 5 THEN XyzRaised("IndexError")
    ELSE IF ~z.ok THEN XyzRaised("ValueError")
    ELSE IF Len(x.vals) # dims[1] * dims[2] * dims[3] THEN XyzRaised("ValueError")
    ELSE IF Len(y.vals) # dims[1] * dims[2] * dims[3] THEN XyzRaised("ValueError")
    ELSE IF Len(z.vals) # dims[1] * dims[2] * dims[3] THEN XyzRaised("ValueError")
    \* line 67: np.min of an empty list raises
    ELSE IF dims[1] * dims[2] * dims[3] = 0 THEN XyzRaised("ValueError")
    ELSE [exc    |-> "none",
          points |-> PointRows(x.vals, y.vals, z.vals, dims[1] * dims[2] * dims[3]),
          dims   |-> dims]

\* lines 47-71, the dimensions being read
ParseChannels(lines, dims) ==
    CheckChannels(Len(lines), dims, FloatsOfLine(LineAt(lines, 3)),
                  FloatsOfLine(LineAt(lines, 4)), FloatsOfLine(LineAt(lines, 5)))

\* lines 38-44, dims being the list line 39 makes
CheckDims(lines, dims) ==
    IF ~dims.ok THEN XyzRaised("ValueError")
    ELSE IF Len(dims.vals) # 3 THEN XyzRaised("ValueError")
    ELSE ParseChannels(lines, dims.vals)

\* parse_xyz_file(filename): [exc, points, dims]
parse_xyz_file(file) ==
    IF ~file.exists THEN XyzRaised("FileNotFoundError")
    ELSE IF Len(file.data) < 1 THEN XyzRaised("IndexError")
    ELSE IF ~IntOfLine(file.data[1]).ok THEN XyzRaised("ValueError")
    ELSE IF Len(file.data) < 2 THEN XyzRaised("IndexError")
    ELSE CheckDims(file.data, IntsOfLine(file.data[2]))

\* 'controlPoints', '(', ')' and ');'
KwControlPoints ==
    <<99, 111, 110, 116, 114, 111, 108, 80, 111, 105, 110, 116, 115>>

ParenOpen == <<40>>

ParenClose == <<41>>

ListEnd == <<41, 59>>

\* line 113: "( x y z ) " for one row
PointTokens(point) ==
    <<ParenOpen>> \o [c \in 1..3 |-> Fmt8g(point[c])] \o <<ParenClose>>

\* line 106: "controlPoints   {n_points} ( "
ListHead(n_points) == <<KwControlPoints, FmtD(n_points), ParenOpen>>

\* write_openfoam_format(points, output_file, box_name): the lines of the
\* file from "controlPoints" (line 106) to the end of the list (line 115).
\* The banner and FoamFile header before it and the footer after it are
\* fixed text and are not represented.
write_openfoam_format(points) ==
    IF DOMAIN points = {} THEN <<ListHead(0) \o <<ListEnd>>>>
    ELSE [l \in 1..Cardinality(DOMAIN points) |->
            (IF l = 1 THEN ListHead(Cardinality(DOMAIN points)) ELSE <<>>)
            \o PointTokens(points[l - 1])
            \o (IF l = Cardinality(DOMAIN points) THEN <<ListEnd>> ELSE <<>>)]

-----------------------------------------------------------------------------
(* scripts/convert_XYZ_to_VTK.py                                           *)

RECURSIVE ReadChannel(_, _, _, _)
\* lines 21-23: the values fl of line p are appended to acc
TakeLine(lines, p, n, acc, fl) ==
    IF ~fl.ok THEN [ok |-> FALSE, vals |-> acc, next |-> p]
    ELSE IF Len(acc) + Len(fl.vals) >= n
    THEN [ok |-> TRUE, vals |-> acc \o fl.vals, next |-> p + 1]
    ELSE ReadChannel(lines, p + 1, n, acc \o fl.vals)

\* lines 18-23: "for line in f" from line p on, until n values are there:
\* [ok, vals, next]; blank lines are skipped, a line is taken whole
ReadChannel(lines, p, n, acc) ==
    IF p > Len(lines) THEN [ok |-> TRUE, vals |-> acc, next |-> p]
    ELSE IF lines[p] = <<>> THEN ReadChannel(lines, p + 1, n, acc)
    ELSE TakeLine(lines, p, n, acc, FloatsOfLine(lines[p]))

\* x[:n]
SliceTo(x, n) ==
    IF n >= 0 THEN SubSeq(x, 1, Min2(n, Len(x))) ELSE SubSeq(x, 1, Len(x) + n)

\* Reshape reading the flat list with i outermost (Fortran order)
ReshapeIFirst(flat, bnz, bny, bnx) ==
    [k \in 0..(bnz - 1) |-> [j \in 0..(bny - 1) |-> [i \in 0..(bnx - 1) |->
        flat[(i * bny + j) * bnz + k + 1]]]]

\* np.array(flat).reshape((nz, ny, nx)) for counts >= 0: element [k][j][i]
\* is flat[(k*ny + j)*nx + i]; the sizes must agree
ReshapeRaises(flat, bnz, bny, bnx) == Len(flat) # bnz * bny * bnx

Reshape(flat, bnz, bny, bnx) ==
    [k \in 0..(bnz - 1) |-> [j \in 0..(bny - 1) |-> [i \in 0..(bnx - 1) |->
        flat[(k * bny + j) * bnx + i + 1]]]]

\* what readPlot3D ends with when it raises e
Plot3DRaised(e) == [exc |-> e, x |-> <<>>, y |-> <<>>, z |-> <<>>]

\* lines 36-41, 27-32 and 18-23: each list is read from where the one
\* before it stopped
ReadZ(lines, n, xr, yr) ==
    [x |-> xr, y |-> yr, z |-> ReadChannel(lines, yr.next, n, <<>>)]

ReadYZ(lines, n, xr) == ReadZ(lines, n, xr, ReadChannel(lines, xr.next, n, <<>>))

ReadXYZ(lines, n) == ReadYZ(lines, n, ReadChannel(lines, 3, n, <<>>))

\* lines 24, 33, 42 and 44: r.x, r.y, r.z being the lists read (counts >= 0)
ShapeArrays(r, bnx, bny, bnz) ==
    IF ~r.x.ok \/ ReshapeRaises(SliceTo(r.x.vals, bnx * bny * bnz), bnz, bny, bnx)
    THEN Plot3DRaised("ValueError")
    ELSE IF ~r.y.ok \/ ReshapeRaises(SliceTo(r.y.vals, bnx * bny * bnz), bnz, bny, bnx)
    THEN Plot3DRaised("ValueError")
    ELSE IF ~r.z.ok \/ ReshapeRaises(SliceTo(r.z.vals, bnx * bny * bnz), bnz, bny, bnx)
    THEN Plot3DRaised("ValueError")
    ELSE [exc |-> "none",
          x |-> Reshape(SliceTo(r.x.vals, bnx * bny * bnz), bnz, bny, bnx),
          y |-> Reshape(SliceTo(r.y.vals, bnx * bny * bnz), bnz, bny, bnx),
          z |-> Reshape(SliceTo(r.z.vals, bnx * bny * bnz), bnz, bny, bnx)]

\* lines 17-44, the dimensions being read
ReadArrays(lines, bnx, bny, bnz) ==
    ShapeArrays(ReadXYZ(lines, bnx * bny * bnz), bnx, bny, bnz)

\* readPlot3D(filename): [exc, x, y, z]; f.readline() past the end of the
\* file is the empty string
readPlot3D(file) ==
    IF ~file.exists THEN Plot3DRaised("FileNotFoundError")
    ELSE LET lines == file.data
             dims  == IF Len(lines) < 2 THEN <<>> ELSE lines[2]
             d(t)  == ParseInt(dims[t])
         IN  IF Len(lines) < 1 \/ ~IntOfLine(lines[1]).ok
             THEN Plot3DRaised("ValueError")
             ELSE IF Len(dims) < 1 THEN Plot3DRaised("IndexError")
             ELSE IF ~d(1).ok THEN Plot3DRaised("ValueError")
             ELSE IF Len(dims) < 2 THEN Plot3DRaised("IndexError")
             ELSE IF ~d(2).ok THEN Plot3DRaised("ValueError")
             ELSE IF Len(dims) < 3 THEN Plot3DRaised("IndexError")
             ELSE IF ~d(3).ok THEN Plot3DRaised("ValueError")
             ELSE ReadArrays(lines, d(1).val, d(2).val, d(3).val)

-----------------------------------------------------------------------------
(* old_setup/convert_bin_to_ascii.py                                       *)

\* one struct.unpack('fff', b) of 12 bytes
UnpackVec3(b) ==
    <<UnpackF32(SubSeq(b, 1, 4)), UnpackF32(SubSeq(b, 5, 8)),
      UnpackF32(SubSeq(b, 9, 12))>>

RECURSIVE ReadTriangles(_, _, _, _, _)
\* lines 19-34: triangle i of num_triangles, the file position at pos; a
\* read that comes short makes struct.unpack raise, the attribute read
\* (line 29) is not looked at
ReadTriangles(bytes, num_triangles, i, pos, acc) ==
    IF i >= num_triangles THEN [exc |-> "none", triangles |-> acc]
    ELSE LET b == ReadAt(bytes, pos, 4 * Vec3Len)
         IN  IF Len(b) < 4 * Vec3Len
             THEN [exc |-> "struct.error", triangles |-> <<>>]
             ELSE ReadTriangles(bytes, num_triangles, i + 1,
                     PosAfter(bytes, pos + 4 * Vec3Len, AttrLen),
                     Append(acc,
                        [normal   |-> UnpackVec3(SubSeq(b, 1, 12)),
                         vertices |-> <<UnpackVec3(SubSeq(b, 13, 24)),
                                        UnpackVec3(SubSeq(b, 25, 36)),
                                        UnpackVec3(SubSeq(b, 37, 48))>>]))

\* read_binary_stl(filename) on an existing file: [exc, triangles]
read_binary_stl(file) ==
    LET cnt == ReadAt(file.data, PosAfter(file.data, 0, HeaderLen), CountLen)
    IN  IF Len(cnt) < CountLen THEN [exc |-> "struct.error", triangles |-> <<>>]
        ELSE ReadTriangles(file.data, UnpackU32(cnt), 0, HeaderLen + CountLen, <<>>)

\* "{v[0]:.6e} {v[1]:.6e} {v[2]:.6e}"
SciVec3(v) ==
    ConcatFor(LAMBDA c : (IF c > 1 THEN <<32>> ELSE <<>>) \o FmtE6(v[c]), 1, 4)

\* lines 47-52: the seven lines of one facet; line 0 is the normal, lines
\* 1..3 are the vertices
FacetLine(tri, j) ==
    (IF j = 0
     THEN <<32, 32, 102, 97, 99, 101, 116, 32, 110, 111, 114, 109, 97, 108, 32>>
     ELSE <<32, 32, 32, 32, 32, 32>> \o KwVertex \o <<32>>)
    \o SciVec3(IF j = 0 THEN tri.normal ELSE tri.vertices[j]) \o <<10>>
    \o (IF j = 0
        THEN <<32, 32, 32, 32, 111, 117, 116, 101, 114, 32, 108, 111, 111, 112, 10>>
        ELSE <<>>)

FacetText(tri) ==
    ConcatFor(LAMBDA j : FacetLine(tri, j), 0, 4)
    \o <<32, 32, 32, 32, 101, 110, 100, 108, 111, 111, 112, 10>>
    \o <<32, 32, 101, 110, 100, 102, 97, 99, 101, 116, 10>>

\* write_ascii_stl(filename, triangles, solid_name): the bytes of the file,
\* solid_name being given as its bytes in the encoding of the output (UTF-8)
write_ascii_stl(triangles, solid_name) ==
    KwSolid \o <<32>> \o solid_name \o <<10>>
    \o ConcatFor(LAMBDA t : FacetText(triangles[t]), 1, Len(triangles) + 1)
    \o <<101, 110, 100>> \o KwSolid \o <<32>> \o solid_name \o <<10>>

-----------------------------------------------------------------------------
(* scripts/csv_to_vtk_converter.py                                         *)
(* A CSV file of the input directory is [suffix, rows]: suffix is the part *)
(* of its name that the '*' of FILE_PATTERN matches, rows are the numeric   *)
(* rows np.genfromtxt reads after the header line, all of one width.       *)

\* 'boxcpsBsplines', '.csv', 'control_points_t', '.vtp' and the names of the
\* collection index and of the archive
KwBox == <<98, 111, 120, 99, 112, 115, 66, 115, 112, 108, 105, 110, 101, 115>>

DotCsv == <<46, 99, 115, 118>>

KwVtpStem ==
    <<99, 111, 110, 116, 114, 111, 108, 95, 112, 111, 105, 110, 116, 115, 95, 116>>

DotVtp == <<46, 118, 116, 112>>

PvdName ==
    <<99, 111, 110, 116, 114, 111, 108, 95, 112, 111, 105, 110, 116, 115, 95,
      116, 101, 109, 112, 111, 114, 97, 108, 46, 112, 118, 100>>

ZipName ==
    <<99, 111, 110, 116, 114, 111, 108, 95, 112, 111, 105, 110, 116, 115, 95,
      116, 101, 109, 112, 111, 114, 97, 108, 46, 122, 105, 112>>

RECURSIVE StrLess(_, _)
\* a < b for two strings: code point order, a proper prefix first
StrLess(a, b) ==
    IF b = <<>> THEN FALSE
    ELSE IF a = <<>> THEN TRUE
    ELSE IF a[1] # b[1] THEN a[1] < b[1]
    ELSE StrLess(Tail(a), Tail(b))

\* the name of a CSV file
CsvName(suffix) == KwBox \o suffix \o DotCsv

RECURSIVE SortedFiles(_)
\* line 161: sorted(Path(INPUT_DIR).glob(FILE_PATTERN)), the files of the
\* directory in the order of their names
SortedFiles(dir) ==
    IF dir = {} THEN <<>>
    ELSE LET first == CHOOSE f \in dir : \A g \in dir \ {f} :
                          StrLess(CsvName(f.suffix), CsvName(g.suffix))
         IN  <<first>> \o SortedFiles(dir \ {first})

\* f"{timestep:04d}": the sign counts in the width
Fmt04d(n) == IF n < 0 THEN <<45>> \o ZeroPad(-n, 3) ELSE ZeroPad(n, 4)

\* line 194: the base name of the VTP file of a timestep
VtpName(timestep) == KwVtpStem \o Fmt04d(timestep) \o DotVtp

\* columns lo..hi-1 of a row (0-based, clipped): row[lo:hi]
Columns(row, lo, hi) == SubSeq(row, lo + 1, Min2(hi, Len(row)))

\* read_control_points(csv_file): [exc, points, indices, active].  With
\* fewer than two rows np.genfromtxt gives a one-dimensional array and
\* data[:, 0:3] raises.
read_control_points(rows) ==
    IF Len(rows) < 2
    THEN [exc |-> "IndexError", points |-> <<>>, indices |-> <<>>, active |-> <<>>]
    ELSE [exc     |-> "none",
          points  |-> [r \in 1..Len(rows) |-> Columns(rows[r], 0, 3)],
          indices |-> [r \in 1..Len(rows) |-> Columns(rows[r], 3, 6)],
          active  |-> [r \in 1..Len(rows) |-> Columns(rows[r], 6, 9)]]

\* write_vtp_polydata(filename, points, indices, active, timestep): the
\* exception it ends with and the file it leaves: the rows of the Points
\* array written so far (line 59) and whether the closing tag was reached.
\* A row too short for point[2], idx[0] or act[0] raises with the file
\* already open.
write_vtp_polydata(points, indices, active) ==
    LET width(a) == IF Len(a) = 0 THEN 3 ELSE Len(a[1])
        written == IF width(points) < 3 THEN <<>>
                   ELSE [r \in 1..Len(points) |->
                            <<Fmt6(points[r][1]), Fmt6(points[r][2]),
                              Fmt6(points[r][3])>>]
        ok == width(points) >= 3 /\ width(indices) >= 3 /\ width(active) >= 3
    IN  [exc  |-> IF ok THEN "none" ELSE "IndexError",
         file |-> FileOf([points |-> written, complete |-> ok])]

\* write_pvd_file(pvd_filename, vtp_files, timesteps): one DataSet line per
\* pair of zip(vtp_files, timesteps)
write_pvd_file(vtp_files, timesteps) ==
    [e \in 1..Min2(Len(vtp_files), Len(timesteps)) |->
        [timestep |-> FmtD(timesteps[e]), file |-> vtp_files[e]]]

-----------------------------------------------------------------------------
(* State                                                                   *)

VARIABLES
    \* scripts/genXYZ.py: the module-level names of the script
    nBlocks,    \* number of blocks
    nx, ny, nz, \* per block (1..nBlocks): the point counts
    corners,    \* per block: the 8 corners, 0..7 -> <<x, y, z>>
    points,     \* the lattices appended so far, one per block
    fileXYZ,    \* the file 'boxcpsBsplines0.xyz'
    genPc,      \* "idle" | "points" | "done" | "ValueError"
    \* old_setup/generate_ffd_offset.py: one run of main()
    stl,        \* the file args.stl_file names: NoFile or its bytes
    mesh,       \* what stl was made from (not read by the script)
    args,       \* the parsed command line
    bounds,     \* what get_stl_bounds ended with
    coords,     \* x_coords, y_coords, z_coords
    outFile,    \* the file args.output_file names
    ffdExc,     \* the exception generate_ffd_box raised, or "none"
    ffdPc,      \* "idle" | "bounds" | "box" | "write" | "except" | "exit"
    \* the process of the script that runs
    stdout,     \* the lines printed to sys.stdout that the model keeps
    stderr,     \* the messages printed to sys.stderr
    exitCode,   \* the exit status, -1 while running
    \* old_setup/convert_bin_to_ascii.py: one run of the script
    convArgv,   \* sys.argv[1:]: whether a file is named, and its stem
    convIn,     \* the file input_file names
    convMesh,   \* what convIn was made from (not read by the script)
    triangles,  \* what read_binary_stl returned
    asciiFile,  \* the file output_file names
    convPc,     \* "idle" | "main" | "read" | "write" | "exit"
    \* scripts/xyz_to_openfoam.py and scripts/convert_XYZ_to_VTK.py: one run
    xyzArgv,    \* sys.argv[1:] of xyz_to_openfoam.py: whether a file is named
    xyzFile,    \* the .xyz file the script reads
    lattice,    \* what xyzFile was made from (not read by the script)
    parsed,     \* what parse_xyz_file returned: points and dimensions
    foamFile,   \* the dictionary file write_openfoam_format writes
    xyzPc,      \* "idle" | "main" | "parse" | "write" | "exit"
    grid,       \* what readPlot3D returned: x, y, z
    vtsFile,    \* the file gridToVTK writes
    vtkPc,      \* "idle" | "read" | "write" | "exit"
    \* scripts/csv_to_vtk_converter.py: one run of main()
    inputDir,   \* the CSV files of INPUT_DIR that FILE_PATTERN matches
    csv_files,  \* the sorted list of them
    csvDone,    \* how many of them the loop has been through
    vtp_files,  \* the names of the VTP files written
    timesteps,  \* their timesteps
    outputDir,  \* OUTPUT_DIR: whether it exists, and its files by name
    csvPc       \* "idle" | "main" | "loop" | "exit"

genVars == <<nBlocks, nx, ny, nz, corners, points, fileXYZ, genPc>>

ffdVars == <<stl, mesh, args, bounds, coords, outFile, ffdExc, ffdPc>>

procVars == <<stdout, stderr, exitCode>>

convVars == <<convArgv, convIn, convMesh, triangles, asciiFile, convPc>>

xyzVars == <<xyzArgv, xyzFile, lattice, parsed, foamFile, xyzPc, grid,
             vtsFile, vtkPc>>

csvVars == <<inputDir, csv_files, csvDone, vtp_files, timesteps, outputDir,
             csvPc>>

vars == <<nBlocks, nx, ny, nz, corners, points, fileXYZ, genPc,
          stl, mesh, args, bounds, coords, outFile, ffdExc, ffdPc,
          stdout, stderr, exitCode,
          convArgv, convIn, convMesh, triangles, asciiFile, convPc,
          xyzArgv, xyzFile, lattice, parsed, foamFile, xyzPc, grid,
          vtsFile, vtkPc,
          inputDir, csv_files, csvDone, vtp_files, timesteps, outputDir,
          csvPc>>

-----------------------------------------------------------------------------
(* Inputs of scripts/genXYZ.py                                             *)

Vec(a, b, c) == <<RInt(a), RInt(b), RInt(c)>>

\* corner c of hexahedron h moved by the vector d
Shear(h, c, d) ==
    [h EXCEPT ![c] = <<RAdd(h[c][1], d[1]), RAdd(h[c][2], d[2]),
                       RAdd(h[c][3], d[3])>>]

\* axis-aligned boxes: any x range (also empty and inverted), distinct y and
\* z ranges
AlignedBoxes ==
    {BoxCorners(Vec(a, 0, 1), Vec(b, 2, 3)) : a \in 0..MaxCoord, b \in 0..MaxCoord}

\* sheared hexahedra: one corner of a box moved off its place
ShearedBoxes ==
    {Shear(BoxCorners(Vec(0, 0, 1), Vec(MaxCoord, 2, 3)), c, d) :
        c \in 0..7, d \in {Vec(1, 0, 0), Vec(0 - 1, 1, 2)}}

Hexahedra == AlignedBoxes \cup ShearedBoxes

\* point counts: every triple of 0..MaxN, and a negative count on each axis
CountTriples ==
    ((0..MaxN) \X (0..MaxN) \X (0..MaxN))
        \cup {<<0 - 1, 2, 2>>, <<2, 0 - 1, 2>>, <<2, 2, 0 - 1>>}

\* the first block: every count triple on one aligned and one sheared
\* hexahedron, and every hexahedron at a few count triples
FirstBlocks ==
    {[n |-> t, c |-> h] :
        t \in CountTriples,
        h \in {BoxCorners(Vec(0, 0, 1), Vec(MaxCoord, 2, 3)),
               Shear(BoxCorners(Vec(0, 0, 1), Vec(MaxCoord, 2, 3)), 6, Vec(1, 0, 0))}}
    \cup
    {[n |-> t, c |-> h] :
        t \in {<<2, 2, 2>>, <<MaxN, MaxN, MaxN>>, <<2, 3, MaxN>>, <<MaxN, 2, 3>>},
        h \in Hexahedra}

MoreBlocks ==
    {[n |-> <<2, 2, 2>>, c |-> BoxCorners(Vec(0, 0, 0), Vec(1, 1, 1))],
     [n |-> <<3, 2, 2>>,
      c |-> Shear(BoxCorners(Vec(0, 0, 0), Vec(2, 1, 1)), 6, Vec(1, 1, 0))]}

\* one block: any first block; several blocks: a sheared or an aligned
\* first block, then blocks of MoreBlocks
BlockInputs(n) ==
    IF n = 1 THEN {<<a>> : a \in FirstBlocks}
    ELSE {<<a>> \o t :
            a \in {f \in FirstBlocks :
                     /\ f.n \in {<<2, 3, MaxN>>, <<MaxN, 2, 3>>}
                     /\ f.c \in {BoxCorners(Vec(0, 0, 1), Vec(MaxCoord, 2, 3)),
                                 Shear(BoxCorners(Vec(0, 0, 1), Vec(MaxCoord, 2, 3)),
                                       6, Vec(1, 0, 0))}},
            t \in [1..(n - 1) -> MoreBlocks]}

-----------------------------------------------------------------------------
(* scripts/genXYZ.py: the script                                           *)

GenIdle ==
    /\ nBlocks = 0
    /\ nx = <<>> /\ ny = <<>> /\ nz = <<>>
    /\ corners = <<>>
    /\ points = <<>>
    /\ fileXYZ = NoFile
    /\ genPc = "idle"

\* lines 66-87: the block counts and corners are set, points = []
GenInit ==
    \E n \in 1..MaxBlocks : \E bs \in BlockInputs(n) :
        /\ nBlocks = n
        /\ nx = [b \in 1..n |-> bs[b].n[1]]
        /\ ny = [b \in 1..n |-> bs[b].n[2]]
        /\ nz = [b \in 1..n |-> bs[b].n[3]]
        /\ corners = [b \in 1..n |-> bs[b].c]
        /\ points = <<>>
        /\ fileXYZ = NoFile
        /\ genPc = "points"

\* lines 88-89: one turn of "for block in range(nBlocks)"; a ValueError
\* raised by returnBlockPoints ends the script
GenBlockPoints ==
    /\ genPc = "points"
    /\ Len(points) < nBlocks
    /\ LET b == Len(points) + 1
       IN  IF returnBlockPointsRaises(nx[b], ny[b], nz[b])
           THEN /\ genPc' = "ValueError"
                /\ UNCHANGED points
           ELSE /\ points' = Append(points,
                        returnBlockPoints(corners[b], nx[b], ny[b], nz[b]))
                /\ UNCHANGED genPc
    /\ UNCHANGED <<nBlocks, nx, ny, nz, corners, fileXYZ>>
    /\ UNCHANGED <<ffdVars, procVars, convVars, xyzVars, csvVars>>

\* lines 91-95: writeFFDFile(fileName, nBlocks, nx, ny, nz, points)
GenWriteFFDFile ==
    /\ genPc = "points"
    /\ Len(points) = nBlocks
    /\ fileXYZ' = FileOf(writeFFDFile(nBlocks, nx, ny, nz, points))
    /\ genPc' = "done"
    /\ UNCHANGED <<nBlocks, nx, ny, nz, corners, points>>
    /\ UNCHANGED <<ffdVars, procVars, convVars, xyzVars, csvVars>>

-----------------------------------------------------------------------------
(* Inputs of old_setup/generate_ffd_offset.py                              *)

\* the binary32 encodings (little-endian) of the coordinates the input
\* meshes use
F32Table ==
    { <<RInt(0), <<0, 0, 0, 0>>>>,       <<RInt(1), <<0, 0, 128, 63>>>>,
      <<RInt(-1), <<0, 0, 128, 191>>>>,  <<RInt(2), <<0, 0, 0, 64>>>>,
      <<RInt(3), <<0, 0, 64, 64>>>>,     <<RInt(4), <<0, 0, 128, 64>>>>,
      <<RInt(-4), <<0, 0, 128, 192>>>>,  <<Norm(1, 2), <<0, 0, 0, 63>>>> }

F32Bytes(v) == (CHOOSE r \in F32Table : r[1] = v)[2]

Vec3Bytes(p) == F32Bytes(p[1]) \o F32Bytes(p[2]) \o F32Bytes(p[3])

\* the triangles meshes are made of: the spec's example triangle; one whose
\* 50 bytes are all ASCII; one with negative and fractional coordinates and
\* a normal outside its extent; one spanning the unit cube
TriA == [normal |-> Vec(0, 0, 1), attr |-> <<0, 0>>,
         v |-> <<Vec(0, 0, 0), Vec(1, 0, 0), Vec(0, 1, 0)>>]

TriB == [normal |-> Vec(0, 0, 0), attr |-> <<0, 0>>,
         v |-> <<Vec(0, 0, 0), Vec(2, 0, 0), Vec(0, 2, 0)>>]

TriC == [normal |-> Vec(-4, 4, -4), attr |-> <<10, 10>>,
         v |-> <<Vec(-1, 2, 1), Vec(1, -1, 3), <<Norm(1, 2), RInt(0), RInt(-1)>>>>]

TriU == [normal |-> Vec(4, 4, 4), attr |-> <<0, 0>>,
         v |-> <<Vec(0, 0, 0), Vec(1, 1, 1), Vec(0, 1, 0)>>]

\* a degenerate triangle on the x axis: its box is (0,0,0)..(2,0,0)
TriL == [normal |-> Vec(0, 0, 0), attr |-> <<0, 0>>,
         v |-> <<Vec(0, 0, 0), Vec(2, 0, 0), Vec(1, 0, 0)>>]

Tris == {TriA, TriB, TriC, TriU}

\* largest number of triangles of an input mesh
MaxTris == 2

Meshes == UNION {[1..n -> Tris] : n \in 0..MaxTris}

\* 80-byte headers: zeros; 'solid' padded with spaces; 'solid', a newline,
\* zeros
HdrZero == [i \in 1..HeaderLen |-> 0]

HdrSolidSpaces == KwSolid \o [i \in 1..(HeaderLen - 5) |-> 32]

HdrSolidNewline == KwSolid \o <<10>> \o [i \in 1..(HeaderLen - 6) |-> 0]

Headers == {HdrZero, HdrSolidSpaces, HdrSolidNewline}

U32Bytes(n) ==
    <<n % 256, (n \div 256) % 256, (n \div 65536) % 256, (n \div 16777216) % 256>>

TriBytes(t) ==
    Vec3Bytes(t.normal) \o Vec3Bytes(t.v[1]) \o Vec3Bytes(t.v[2])
        \o Vec3Bytes(t.v[3]) \o t.attr

\* a binary STL file: header, count, 50 bytes per triangle
BinaryStl(hdr, tris) ==
    hdr \o U32Bytes(Len(tris)) \o ConcatFor(LAMBDA t : TriBytes(tris[t]), 1, Len(tris) + 1)

\* the characters of a text STL file named name: lines "solid <name>",
\* per triangle "facet normal ..", "outer loop", 3 x "vertex x y z",
\* "endloop", "endfacet", then "endsolid <name>"; numbers in %f form
TextVec3(p) == <<32>> \o Fmt6(p[1]) \o <<32>> \o Fmt6(p[2]) \o <<32>> \o Fmt6(p[3])

TextTri(t) ==
    <<102, 97, 99, 101, 116, 32, 110, 111, 114, 109, 97, 108>> \o TextVec3(t.normal) \o <<10>>
    \o <<32, 111, 117, 116, 101, 114, 32, 108, 111, 111, 112, 10>>
    \o ConcatFor(LAMBDA j : <<32, 32>> \o KwVertex \o TextVec3(t.v[j]) \o <<13, 10>>, 1, 4)
    \o <<32, 101, 110, 100, 108, 111, 111, 112, 10>>
    \o <<101, 110, 100, 102, 97, 99, 101, 116, 10>>

TextStl(name, tris) ==
    KwSolid \o <<32>> \o name \o <<10>>
    \o ConcatFor(LAMBDA t : TextTri(tris[t]), 1, Len(tris) + 1)
    \o <<101, 110, 100>> \o KwSolid \o <<32>> \o name \o <<10>>

\* solid names: 'a', and 'é' (UTF-8)
SolidNames == {<<97>>, <<195, 169>>}

\* lengths at which a binary file is cut short: inside the header, inside
\* the count, inside the first normal, inside the first vertex, before and
\* inside the first attribute, inside the second triangle's vertices and
\* inside its attribute
TriLen == 4 * Vec3Len + AttrLen

TruncLens ==
    {HeaderLen \div 2, HeaderLen + 2,
     HeaderLen + CountLen + 5,
     HeaderLen + CountLen + Vec3Len + 11,
     HeaderLen + CountLen + TriLen - AttrLen,
     HeaderLen + CountLen + TriLen - 1,
     HeaderLen + CountLen + TriLen + 2 * Vec3Len,
     HeaderLen + CountLen + 2 * TriLen - 1}

\* input files with what they were made from
BinaryInputs ==
    {[stl |-> FileOf(BinaryStl(h, m)),
      mesh |-> [enc |-> "binary", tris |-> m, intact |-> TRUE]] :
        h \in Headers, m \in Meshes}

TruncatedInputs ==
    UNION {
        {[stl |-> FileOf(SubSeq(BinaryStl(h, m), 1, l)),
          mesh |-> [enc |-> "binary", tris |-> m, intact |-> FALSE]] :
            l \in {t \in TruncLens : t < HeaderLen + CountLen + TriLen * Len(m)}} :
        h \in Headers, m \in Meshes}

TextInputs ==
    {[stl |-> FileOf(TextStl(nm, m)),
      mesh |-> [enc |-> "text", tris |-> m, intact |-> TRUE]] :
        nm \in SolidNames, m \in Meshes}

MissingInput ==
    [stl |-> NoFile, mesh |-> [enc |-> "missing", tris |-> <<>>, intact |-> FALSE]]

\* the margins: none, the defaults, negative ones
ZeroOffset == Vec(0, 0, 0)

DefaultOffset == <<Norm(1, 10), Norm(1, 10), Norm(1, 20)>>

Args(n, off, xs, xe) == [n |-> n, offset |-> off, x_start |-> xs, x_end |-> xe]

\* few command lines, for the many files
FewArgs ==
    {Args(<<3, 2, 2>>, ZeroOffset, None, None),
     Args(<<2, 2, 2>>, DefaultOffset, None, None)}

\* many command lines, for a few files
FfdCounts ==
    ({2, MaxN} \X {2, MaxN} \X {2, MaxN})
    \cup {<<a, 2, 2>> : a \in -1..1}
    \cup {<<2, a, 2>> : a \in -1..1}
    \cup {<<2, 2, a>> : a \in -1..1}

Overrides == {None} \cup {Some(RInt(v)) : v \in 0..MaxCoord}

ManyArgs ==
    {Args(n, off, xs, xe) :
        n \in FfdCounts,
        off \in {ZeroOffset, DefaultOffset, <<RInt(-1), RInt(0), Norm(-1, 2)>>},
        xs \in Overrides, xe \in Overrides}

FewInputs ==
    {MissingInput}
    \cup {i \in BinaryInputs :
            /\ i.stl.data[1] = 0
            /\ i.mesh.tris \in {<<>>, <<TriU>>, <<TriB>>, <<TriA, TriC>>}}
    \cup {i \in TextInputs : i.stl.data[7] = 97 /\ i.mesh.tris = <<TriC, TriA>>}

\* the box (0,0,0)..(2,0,0) with 3 x 2 x 2 points and no margin
LineExample ==
    << [stl |-> FileOf(BinaryStl(HdrZero, <<TriL>>)),
        mesh |-> [enc |-> "binary", tris |-> <<TriL>>, intact |-> TRUE]],
       Args(<<3, 2, 2>>, ZeroOffset, None, None) >>

FfdInputs ==
    ((BinaryInputs \cup TruncatedInputs \cup TextInputs) \X FewArgs)
    \cup (FewInputs \X ManyArgs)
    \cup {LineExample}

-----------------------------------------------------------------------------
(* old_setup/generate_ffd_offset.py: main()                                *)

NoCoords == [x_coords |-> <<>>, y_coords |-> <<>>, z_coords |-> <<>>]

FfdIdle ==
    /\ stl = NoFile
    /\ mesh = [enc |-> "missing", tris |-> <<>>, intact |-> FALSE]
    /\ args = Args(<<0, 0, 0>>, ZeroOffset, None, None)
    /\ bounds = Raised("pending")
    /\ coords = NoCoords
    /\ outFile = NoFile
    /\ ffdExc = "none"
    /\ ffdPc = "idle"

\* lines 212-215: the arguments are parsed, generate_ffd_box is entered
FfdInit ==
    \E in \in FfdInputs :
        /\ stl = in[1].stl
        /\ mesh = in[1].mesh
        /\ args = in[2]
        /\ bounds = Raised("pending")
        /\ coords = NoCoords
        /\ outFile = NoFile
        /\ ffdExc = "none"
        /\ ffdPc = "bounds"

\* lines 85-91: min_point, max_point = get_stl_bounds(stl_file)
FfdGetBounds ==
    /\ ffdPc = "bounds"
    /\ bounds' = get_stl_bounds(stl)
    /\ ffdExc' = bounds'.exc
    /\ ffdPc' = IF bounds'.exc = "none" THEN "box" ELSE "except"
    /\ stdout' = Append(stdout, ReadingLine(stl))
    /\ UNCHANGED <<stl, mesh, args, coords, outFile, stderr, exitCode>>
    /\ UNCHANGED <<genVars, convVars, xyzVars, csvVars>>

\* lines 93-119: the overrides, the margins and the three np.linspace
FfdBox ==
    /\ ffdPc = "box"
    /\ IF \E a \in 1..3 : LinspaceRaises(args.n[a])
       THEN /\ ffdExc' = "ValueError"
            /\ ffdPc' = "except"
            /\ UNCHANGED coords
       ELSE /\ coords' = AxisCoords(
                    OffsetBox(OverrideX(bounds, args.x_start, args.x_end),
                              args.offset[1], args.offset[2], args.offset[3]),
                    args.n)
            /\ ffdPc' = "write"
            /\ UNCHANGED ffdExc
    /\ UNCHANGED <<stl, mesh, args, bounds, outFile, stdout, stderr, exitCode>>
    /\ UNCHANGED <<genVars, convVars, xyzVars, csvVars>>

\* lines 121-158: the file is written; main returns, the exit status is 0
FfdWrite ==
    /\ ffdPc = "write"
    /\ outFile' = FileOf(FfdFileLines(coords, args.n))
    /\ exitCode' = 0
    /\ ffdPc' = "exit"
    /\ UNCHANGED <<stl, mesh, args, bounds, coords, ffdExc, stdout, stderr>>
    /\ UNCHANGED <<genVars, convVars, xyzVars, csvVars>>

\* lines 222-224: except Exception: the message to stderr, sys.exit(1)
FfdExcept ==
    /\ ffdPc = "except"
    /\ stderr' = Append(stderr, <<"Error", ffdExc>>)
    /\ exitCode' = 1
    /\ ffdPc' = "exit"
    /\ UNCHANGED <<stl, mesh, args, bounds, coords, outFile, ffdExc, stdout>>
    /\ UNCHANGED <<genVars, convVars, xyzVars, csvVars>>

-----------------------------------------------------------------------------
(* Inputs of old_setup/convert_bin_to_ascii.py                             *)

\* the command line: no argument, or an input file named by its stem ('a'
\* or 'é'); the output name is the default one
NoArgv == [given |-> FALSE, stem |-> <<>>]

Argv(stem) == [given |-> TRUE, stem |-> stem]

\* every intact binary file under both names; the files cut short and the
\* missing file under the name 'a'
ConvInputs ==
    {[argv |-> NoArgv, stl |-> NoFile, mesh |-> MissingInput.mesh]}
    \cup {[argv |-> Argv(nm), stl |-> i.stl, mesh |-> i.mesh] :
            nm \in SolidNames, i \in BinaryInputs}
    \cup {[argv |-> Argv(<<97>>), stl |-> i.stl, mesh |-> i.mesh] :
            i \in TruncatedInputs \cup {MissingInput}}

-----------------------------------------------------------------------------
(* old_setup/convert_bin_to_ascii.py: the script                           *)

\* an exception no handler catches: the interpreter prints the traceback to
\* sys.stderr and exits with status 1
Traceback(e) == <<"Traceback", e>>

ConvIdle ==
    /\ convArgv = NoArgv
    /\ convIn = NoFile
    /\ convMesh = MissingInput.mesh
    /\ triangles = <<>>
    /\ asciiFile = NoFile
    /\ convPc = "idle"

ConvInit ==
    \E in \in ConvInputs :
        /\ convArgv = in.argv
        /\ convIn = in.stl
        /\ convMesh = in.mesh
        /\ triangles = <<>>
        /\ asciiFile = NoFile
        /\ convPc = "main"

\* lines 77-85 and 58-67: the usage message goes to sys.stdout; a missing
\* input file raises FileNotFoundError
ConvMain ==
    /\ convPc = "main"
    /\ IF ~convArgv.given
       THEN /\ stdout' = Append(stdout, "Usage: python stl_convert.py <input.stl> [output.stl]")
            /\ exitCode' = 1
            /\ convPc' = "exit"
            /\ UNCHANGED stderr
       ELSE IF ~convIn.exists
       THEN /\ stderr' = Append(stderr, Traceback("FileNotFoundError"))
            /\ exitCode' = 1
            /\ convPc' = "exit"
            /\ UNCHANGED stdout
       ELSE /\ stdout' = Append(stdout, "Reading binary STL")
            /\ convPc' = "read"
            /\ UNCHANGED <<stderr, exitCode>>
    /\ UNCHANGED <<convArgv, convIn, convMesh, triangles, asciiFile>>
    /\ UNCHANGED <<genVars, ffdVars, xyzVars, csvVars>>

\* lines 68-71: triangles = read_binary_stl(input_file)
ConvRead ==
    /\ convPc = "read"
    /\ LET r == read_binary_stl(convIn)
       IN  IF r.exc # "none"
           THEN /\ stderr' = Append(stderr, Traceback(r.exc))
                /\ exitCode' = 1
                /\ convPc' = "exit"
                /\ UNCHANGED <<triangles, stdout>>
           ELSE /\ triangles' = r.triangles
                /\ stdout' = Append(stdout, "Writing ASCII STL")
                /\ convPc' = "write"
                /\ UNCHANGED <<stderr, exitCode>>
    /\ UNCHANGED <<convArgv, convIn, convMesh, asciiFile>>
    /\ UNCHANGED <<genVars, ffdVars, xyzVars, csvVars>>

\* lines 72-75: write_ascii_stl(output_file, triangles, input_path.stem);
\* the script ends, the exit status is 0
ConvWrite ==
    /\ convPc = "write"
    /\ asciiFile' = FileOf(write_ascii_stl(triangles, convArgv.stem))
    /\ stdout' = Append(stdout, "Conversion complete!")
    /\ exitCode' = 0
    /\ convPc' = "exit"
    /\ UNCHANGED <<convArgv, convIn, convMesh, triangles, stderr>>
    /\ UNCHANGED <<genVars, ffdVars, xyzVars, csvVars>>

-----------------------------------------------------------------------------
(* Inputs of scripts/xyz_to_openfoam.py and scripts/convert_XYZ_to_VTK.py  *)
(* A file comes with what it was made from: whether a writer of the        *)
(* repository wrote it, the declared counts n, the lattice point at each   *)
(* (i, j, k), and the number of values put into each channel.              *)

Made(written, n, at, chan) ==
    [written |-> written, n |-> n, at |-> at, chan |-> chan]

NoLattice == Made(FALSE, <<>>, <<>>, <<>>)

\* the file scripts/genXYZ.py writes for one block
GenLattice(c, n) ==
    LET pts == returnBlockPoints(c, n[1], n[2], n[3])
        np  == n[1] * n[2] * n[3]
    IN  [file |-> FileOf(writeFFDFile(1, <<n[1]>>, <<n[2]>>, <<n[3]>>, <<pts>>)),
         lattice |-> Made(TRUE, n, pts, <<np, np, np>>)]

\* the file old_setup/generate_ffd_offset.py writes for a box
FfdLattice(box, n) ==
    LET cs == AxisCoords(box, n)
        np == n[1] * n[2] * n[3]
    IN  [file |-> FileOf(FfdFileLines(cs, n)),
         lattice |-> Made(TRUE, n,
            [p \in (0..(n[1] - 1)) \X (0..(n[2] - 1)) \X (0..(n[3] - 1)) |->
                <<cs.x_coords[p[1]], cs.y_coords[p[2]], cs.z_coords[p[3]]>>],
            <<np, np, np>>)]

\* a box whose far corner has no finite decimal expansion
ThirdsBox == BoxCorners(Vec(0, 0, 1), <<Norm(1, 3), Norm(5, 3), RInt(3)>>)

XyzCounts == {<<2, 2, 2>>, <<3, 2, 2>>, <<2, MaxN, 3>>}

WrittenInputs ==
    {GenLattice(c, n) :
        c \in {BoxCorners(Vec(0, 0, 1), Vec(MaxCoord, 2, 3)),
               Shear(BoxCorners(Vec(0, 0, 1), Vec(MaxCoord, 2, 3)), 6, Vec(1, 0, 0)),
               ThirdsBox},
        n \in XyzCounts}
    \cup
    {FfdLattice(OffsetBox([min |-> b[1], max |-> b[2]], off[1], off[2], off[3]), n) :
        b \in {<<Vec(0, 0, 0), Vec(1, 1, 1)>>,
               <<Vec(-1, -1, -1), <<RInt(1), Norm(1, 3), Norm(1, 2)>>>>},
        off \in {DefaultOffset},
        n \in XyzCounts}

\* the 2 x 2 x 2 file that the malformed files are made from, and a value
\* to add: '9.5'
BaseFile ==
    GenLattice(BoxCorners(Vec(0, 0, 1), Vec(MaxCoord, 2, 3)), <<2, 2, 2>>).file.data

ExtraToken == <<57, 46, 53>>

\* channel c (1..3) with one value more, and with one value less
WithSurplus(lines, c) == [lines EXCEPT ![2 + c] = Append(@, ExtraToken)]

WithFewer(lines, c) == [lines EXCEPT ![2 + c] = SubSeq(@, 1, Len(@) - 1)]

EditCount(chan, c, d) == [chan EXCEPT ![c] = @ + d]

\* files whose channels do not hold nx*ny*nz values each, made from the
\* 2 x 2 x 2 file base: one value too many or too few in one channel; and x
\* one short with a further line of values after the z line
MiscountedFrom(base) ==
    {[file |-> FileOf(WithSurplus(base, c)),
      lattice |-> Made(FALSE, <<2, 2, 2>>, <<>>, EditCount(<<8, 8, 8>>, c, 1))] :
        c \in 1..3}
    \cup
    {[file |-> FileOf(WithFewer(base, c)),
      lattice |-> Made(FALSE, <<2, 2, 2>>, <<>>, EditCount(<<8, 8, 8>>, c, -1))] :
        c \in 1..3}
    \cup
    {[file |-> FileOf(Append(WithFewer(base, 1), base[5])),
      lattice |-> Made(FALSE, <<2, 2, 2>>, <<>>, <<7, 8, 16>>)]}

\* '123.456789'
Tok123 == <<49, 50, 51, 46, 52, 53, 54, 55, 56, 57>>

\* files made by hand: one point with nan, -inf and 1e-05; two points with
\* nine significant digits
HandInputs ==
    {[file |-> FileOf(<< <<FmtD(1)>>, <<FmtD(1), FmtD(1), FmtD(1)>>,
                         <<<<110, 97, 110>>>>,
                         <<<<45, 105, 110, 102>>>>,
                         <<<<49, 101, 45, 48, 53>>>> >>),
      lattice |-> Made(FALSE, <<1, 1, 1>>, <<>>, <<1, 1, 1>>)],
     [file |-> FileOf(<< <<FmtD(1)>>, <<FmtD(2), FmtD(1), FmtD(1)>>,
                         <<Tok123, Fmt6(Norm(-1, 3))>>,
                         <<Fmt6(RInt(0)), Fmt6(Norm(41, 20))>>,
                         <<Fmt6(RInt(100)), Fmt6(Norm(1, 100000))>> >>),
      lattice |-> Made(FALSE, <<2, 1, 1>>, <<>>, <<2, 2, 2>>)]}

\* no file; two lines only; two counts; a token that is no number; no
\* points at all
BrokenFrom(base) ==
    {[file |-> NoFile, lattice |-> NoLattice],
     [file |-> FileOf(SubSeq(base, 1, 2)), lattice |-> NoLattice],
     [file |-> FileOf([base EXCEPT ![2] = SubSeq(@, 1, 2)]), lattice |-> NoLattice],
     [file |-> FileOf([base EXCEPT ![4][1] = <<120>>]), lattice |-> NoLattice],
     [file |-> FileOf(<< <<FmtD(1)>>, <<FmtD(0), FmtD(1), FmtD(1)>>, <<>>, <<>>, <<>> >>),
      lattice |-> Made(FALSE, <<0, 1, 1>>, <<>>, <<0, 0, 0>>)]}

EditedFrom(base) == MiscountedFrom(base) \cup BrokenFrom(base)

XyzFiles == WrittenInputs \cup HandInputs \cup EditedFrom(BaseFile)

-----------------------------------------------------------------------------
(* scripts/xyz_to_openfoam.py: main()                                      *)

XyzIdle ==
    /\ xyzArgv = FALSE
    /\ xyzFile = NoFile
    /\ lattice = NoLattice
    /\ parsed = XyzRaised("pending")
    /\ foamFile = NoFile
    /\ xyzPc = "idle"
    /\ grid = Plot3DRaised("pending")
    /\ vtsFile = NoFile
    /\ vtkPc = "idle"

\* the script is started without an argument, or with the name of a file
XyzInit ==
    \E in \in {[argv |-> FALSE, file |-> NoFile, lattice |-> NoLattice]}
              \cup {[argv |-> TRUE, file |-> f.file, lattice |-> f.lattice] :
                        f \in XyzFiles} :
        /\ xyzArgv = in.argv
        /\ xyzFile = in.file
        /\ lattice = in.lattice
        /\ parsed = XyzRaised("pending")
        /\ foamFile = NoFile
        /\ xyzPc = "main"
        /\ grid = Plot3DRaised("pending")
        /\ vtsFile = NoFile
        /\ vtkPc = "idle"

\* lines 124-147: the usage message goes to sys.stdout
XyzMain ==
    /\ xyzPc = "main"
    /\ IF ~xyzArgv
       THEN /\ stdout' = Append(stdout, "Usage: python xyz_to_openfoam.py <xyz_file> [output_file] [box_name]")
            /\ exitCode' = 1
            /\ xyzPc' = "exit"
       ELSE /\ stdout' = Append(stdout, "Reading XYZ file")
            /\ xyzPc' = "parse"
            /\ UNCHANGED exitCode
    /\ UNCHANGED <<xyzArgv, xyzFile, lattice, parsed, foamFile, grid, vtsFile,
                   vtkPc, stderr>>
    /\ UNCHANGED <<genVars, ffdVars, convVars, csvVars>>

\* line 148: points, dimensions = parse_xyz_file(input_file)
XyzParse ==
    /\ xyzPc = "parse"
    /\ parsed' = parse_xyz_file(xyzFile)
    /\ IF parsed'.exc # "none"
       THEN /\ stderr' = Append(stderr, Traceback(parsed'.exc))
            /\ exitCode' = 1
            /\ xyzPc' = "exit"
            /\ UNCHANGED stdout
       ELSE /\ stdout' = Append(stdout, "Successfully parsed")
            /\ xyzPc' = "write"
            /\ UNCHANGED <<stderr, exitCode>>
    /\ UNCHANGED <<xyzArgv, xyzFile, lattice, foamFile, grid, vtsFile, vtkPc>>
    /\ UNCHANGED <<genVars, ffdVars, convVars, csvVars>>

\* lines 151-156: write_openfoam_format(points, output_file, box_name); main
\* returns, the exit status is 0
XyzWrite ==
    /\ xyzPc = "write"
    /\ foamFile' = FileOf(write_openfoam_format(parsed.points))
    /\ stdout' = Append(stdout, "Conversion complete!")
    /\ exitCode' = 0
    /\ xyzPc' = "exit"
    /\ UNCHANGED <<xyzArgv, xyzFile, lattice, parsed, grid, vtsFile, vtkPc,
                   stderr>>
    /\ UNCHANGED <<genVars, ffdVars, convVars, csvVars>>

-----------------------------------------------------------------------------
(* scripts/convert_XYZ_to_VTK.py: the script                               *)

\* the script finds some file, or none, under the name 'boxcpsBsplines0.xyz'
VtkInit ==
    \E f \in XyzFiles :
        /\ xyzArgv = FALSE
        /\ xyzFile = f.file
        /\ lattice = f.lattice
        /\ parsed = XyzRaised("pending")
        /\ foamFile = NoFile
        /\ xyzPc = "idle"
        /\ grid = Plot3DRaised("pending")
        /\ vtsFile = NoFile
        /\ vtkPc = "read"

\* line 47: x, y, z = readPlot3D('boxcpsBsplines0.xyz')
VtkRead ==
    /\ vtkPc = "read"
    /\ grid' = readPlot3D(xyzFile)
    /\ IF grid'.exc # "none"
       THEN /\ stderr' = Append(stderr, Traceback(grid'.exc))
            /\ exitCode' = 1
            /\ vtkPc' = "exit"
       ELSE /\ vtkPc' = "write"
            /\ UNCHANGED <<stderr, exitCode>>
    /\ UNCHANGED <<xyzArgv, xyzFile, lattice, parsed, foamFile, xyzPc, vtsFile,
                   stdout>>
    /\ UNCHANGED <<genVars, ffdVars, convVars, csvVars>>

\* lines 50-55: gridToVTK('./boxcpsBsplines0', x, y, z) writes the three
\* arrays to the .vts file; the script ends, the exit status is 0
VtkWrite ==
    /\ vtkPc = "write"
    /\ vtsFile' = FileOf([x |-> grid.x, y |-> grid.y, z |-> grid.z])
    /\ stdout' = Append(stdout, "Converted to FFD_grid.vts - open this in ParaView!")
    /\ exitCode' = 0
    /\ vtkPc' = "exit"
    /\ UNCHANGED <<xyzArgv, xyzFile, lattice, parsed, foamFile, xyzPc, grid,
                   stderr>>
    /\ UNCHANGED <<genVars, ffdVars, convVars, csvVars>>

-----------------------------------------------------------------------------
(* Inputs of scripts/csv_to_vtk_converter.py                               *)

\* rows of a CSV file: x, y, z, i, j, k and three active flags
Row(x, y, z, i, j, k) ==
    <<x, y, z, RInt(i), RInt(j), RInt(k), RInt(1), RInt(1), RInt(1)>>

\* two files of two points each, with different coordinates; a file of one
\* row; a file whose rows hold the coordinates only
RowsA == <<Row(RInt(0), RInt(0), RInt(0), 0, 0, 0),
           Row(RInt(1), Norm(1, 2), RInt(0), 1, 0, 0)>>

RowsB == <<Row(RInt(0), RInt(0), RInt(0), 0, 0, 0),
           Row(RInt(2), Norm(-1, 3), RInt(1), 1, 0, 0)>>

RowsOne == <<Row(RInt(0), RInt(0), RInt(0), 0, 0, 0)>>

RowsNarrow == <<Vec(0, 0, 0), Vec(1, 0, 0)>>

\* the suffixes of the file names: '0', '1', '01', 'x' and the empty one
Suffixes == {<<48>>, <<49>>, <<48, 49>>, <<120>>, <<>>}

CsvPool ==
    {[suffix |-> s, rows |-> r] :
        s \in Suffixes, r \in {RowsA, RowsB, RowsOne, RowsNarrow}}

\* largest number of CSV files in the input directory
MaxCsv == 2

RECURSIVE Dirs(_)
\* the directories of at most k files, no two of one name
Dirs(k) ==
    IF k = 0 THEN {{}}
    ELSE LET less == Dirs(k - 1)
         IN  less \cup
             UNION {{d \cup {f} :
                        f \in {g \in CsvPool : \A h \in d : h.suffix # g.suffix}} :
                    d \in less}

-----------------------------------------------------------------------------
(* scripts/csv_to_vtk_converter.py: main()                                 *)

NoDir == [exists |-> FALSE, files |-> <<>>]

\* the directory dir with the file called name created or overwritten
WithFile(dir, name, file) ==
    [exists |-> TRUE, files |-> (name :> file) @@ dir.files]

CsvIdle ==
    /\ inputDir = {}
    /\ csv_files = <<>>
    /\ csvDone = 0
    /\ vtp_files = <<>>
    /\ timesteps = <<>>
    /\ outputDir = NoDir
    /\ csvPc = "idle"

CsvInit ==
    \E d \in Dirs(MaxCsv) :
        /\ inputDir = d
        /\ csv_files = <<>>
        /\ csvDone = 0
        /\ vtp_files = <<>>
        /\ timesteps = <<>>
        /\ outputDir = NoDir
        /\ csvPc = "main"

\* lines 152-177: the output directory is made and the CSV files are
\* listed; without any, the message goes to sys.stdout and main returns:
\* the exit status is 0
CsvMain ==
    /\ csvPc = "main"
    /\ outputDir' = [exists |-> TRUE, files |-> outputDir.files]
    /\ csv_files' = SortedFiles(inputDir)
    /\ IF csv_files' = <<>>
       THEN /\ stdout' = Append(stdout, "ERROR: No CSV files found matching pattern")
            /\ exitCode' = 0
            /\ csvPc' = "exit"
       ELSE /\ stdout' = Append(stdout, "Processing files...")
            /\ csvPc' = "loop"
            /\ UNCHANGED exitCode
    /\ UNCHANGED <<inputDir, csvDone, vtp_files, timesteps, stderr>>
    /\ UNCHANGED <<genVars, ffdVars, convVars, xyzVars>>

\* lines 179-200: one turn of "for csv_file in csv_files"; an exception
\* raised by read_control_points or write_vtp_polydata is caught nowhere
CsvStep ==
    /\ csvPc = "loop"
    /\ csvDone < Len(csv_files)
    /\ LET csv_file == csv_files[csvDone + 1]
           timestep == ParseInt(csv_file.suffix)
           read     == read_control_points(csv_file.rows)
           wrote    == write_vtp_polydata(read.points, read.indices, read.active)
           vtp_filename == VtpName(timestep.val)
       IN  IF ~timestep.ok
           THEN /\ stdout' = Append(stdout, "Warning: Could not extract timestep")
                /\ csvDone' = csvDone + 1
                /\ UNCHANGED <<vtp_files, timesteps, outputDir, stderr,
                               exitCode, csvPc>>
           ELSE IF read.exc # "none"
           THEN /\ stderr' = Append(stderr, Traceback(read.exc))
                /\ exitCode' = 1
                /\ csvPc' = "exit"
                /\ UNCHANGED <<vtp_files, timesteps, outputDir, stdout, csvDone>>
           ELSE IF wrote.exc # "none"
           THEN /\ outputDir' = WithFile(outputDir, vtp_filename, wrote.file)
                /\ stderr' = Append(stderr, Traceback(wrote.exc))
                /\ exitCode' = 1
                /\ csvPc' = "exit"
                /\ UNCHANGED <<vtp_files, timesteps, stdout, csvDone>>
           ELSE /\ outputDir' = WithFile(outputDir, vtp_filename, wrote.file)
                /\ vtp_files' = Append(vtp_files, vtp_filename)
                /\ timesteps' = Append(timesteps, timestep.val)
                /\ stdout' = Append(stdout, "Timestep")
                /\ csvDone' = csvDone + 1
                /\ UNCHANGED <<stderr, exitCode, csvPc>>
    /\ UNCHANGED <<inputDir, csv_files>>
    /\ UNCHANGED <<genVars, ffdVars, convVars, xyzVars>>

\* lines 203-227: the collection index and the archive are written; main
\* returns, the exit status is 0
CsvFinish ==
    /\ csvPc = "loop"
    /\ csvDone = Len(csv_files)
    /\ outputDir' =
         WithFile(WithFile(outputDir, PvdName,
                           FileOf(write_pvd_file(vtp_files, timesteps))),
                  ZipName, FileOf(<<PvdName>> \o vtp_files))
    /\ stdout' = Append(stdout, "HOW TO USE IN PARAVIEW:")
    /\ exitCode' = 0
    /\ csvPc' = "exit"
    /\ UNCHANGED <<inputDir, csv_files, csvDone, vtp_files, timesteps, stderr>>
    /\ UNCHANGED <<genVars, ffdVars, convVars, xyzVars>>

-----------------------------------------------------------------------------
(* The specification: one run of one script                                *)

\* the process starts: nothing printed, no exit status
ProcStart ==
    /\ stdout = <<>>
    /\ stderr = <<>>
    /\ exitCode = -1

Init ==
    /\ ProcStart
    /\ \/ GenInit /\ FfdIdle /\ ConvIdle /\ XyzIdle /\ CsvIdle
       \/ GenIdle /\ FfdInit /\ ConvIdle /\ XyzIdle /\ CsvIdle
       \/ GenIdle /\ FfdIdle /\ ConvInit /\ XyzIdle /\ CsvIdle
       \/ GenIdle /\ FfdIdle /\ ConvIdle /\ XyzInit /\ CsvIdle
       \/ GenIdle /\ FfdIdle /\ ConvIdle /\ VtkInit /\ CsvIdle
       \/ GenIdle /\ FfdIdle /\ ConvIdle /\ XyzIdle /\ CsvInit

Next ==
    \/ GenBlockPoints
    \/ GenWriteFFDFile
    \/ FfdGetBounds
    \/ FfdBox
    \/ FfdWrite
    \/ FfdExcept
    \/ ConvMain
    \/ ConvRead
    \/ ConvWrite
    \/ XyzMain
    \/ XyzParse
    \/ XyzWrite
    \/ VtkRead
    \/ VtkWrite
    \/ CsvMain
    \/ CsvStep
    \/ CsvFinish

Spec == Init /\ [][Next]_vars

-----------------------------------------------------------------------------
(* Claims about scripts/genXYZ.py                                          *)

\* the weight of corner q at parameters (u, v, w): the documented ordering
\* puts corners 1,2,5,6 at xMax, 4..7 at yMax and 2,3,6,7 at zMax
CornerWeight(q, u, v, w) ==
    LET one == RInt(1)
        wu == IF q \in {1, 2, 5, 6} THEN u ELSE RSub(one, u)
        wv == IF q \in {4, 5, 6, 7} THEN v ELSE RSub(one, v)
        ww == IF q \in {2, 3, 6, 7} THEN w ELSE RSub(one, w)
    IN  RMul(RMul(wu, wv), ww)

RECURSIVE WeightedSum(_, _, _, _)
\* sum over corners q..7 of wts[q] * h[q][c]
WeightedSum(h, wts, c, q) ==
    IF q > 7 THEN RInt(0)
    ELSE RAdd(RMul(wts[q], h[q][c]), WeightedSum(h, wts, c, q + 1))

\* the trilinear blend of the 8 corners of h at (u, v, w): <<x, y, z>>
Trilinear(h, u, v, w) ==
    LET wts == [q \in 0..7 |-> CornerWeight(q, u, v, w)]
    IN  <<WeightedSum(h, wts, 1, 0), WeightedSum(h, wts, 2, 0),
          WeightedSum(h, wts, 3, 0)>>

\* C1: for any 8 corners (sheared hexahedra included) and nx, ny, nz >= 2,
\* every channel of every lattice point (i,j,k) returnBlockPoints returned
\* is the trilinear blend of the corners at u = i/(nx-1), v = j/(ny-1),
\* w = k/(nz-1), and the 8 extreme-index points are the 8 corners.
C1_Trilinear ==
    \A b \in 1..Len(points) :
        (nx[b] >= 2 /\ ny[b] >= 2 /\ nz[b] >= 2) =>
            /\ \A p \in DOMAIN points[b] :
                   points[b][p] =
                       Trilinear(corners[b],
                                 Norm(p[1], nx[b] - 1),
                                 Norm(p[2], ny[b] - 1),
                                 Norm(p[3], nz[b] - 1))
            /\ LET X == nx[b] - 1
                   Y == ny[b] - 1
                   Z == nz[b] - 1
                   P == points[b]
               IN  /\ P[<<0, 0, 0>>] = corners[b][0]
                   /\ P[<<X, 0, 0>>] = corners[b][1]
                   /\ P[<<X, 0, Z>>] = corners[b][2]
                   /\ P[<<0, 0, Z>>] = corners[b][3]
                   /\ P[<<0, Y, 0>>] = corners[b][4]
                   /\ P[<<X, Y, 0>>] = corners[b][5]
                   /\ P[<<X, Y, Z>>] = corners[b][6]
                   /\ P[<<0, Y, Z>>] = corners[b][7]

\* C1 witness: a lattice with an interior point was computed for a sheared
\* hexahedron
C1_Witness ==
    \E b \in 1..Len(points) :
        /\ corners[b] \in ShearedBoxes
        /\ nx[b] = 3 /\ ny[b] = 3 /\ nz[b] = 3
        /\ points[b][<<1, 1, 1>>] \notin {corners[b][q] : q \in 0..7}

\* whether h is an axis-aligned box: built from one min and one max per axis
IsAligned(h) == h = BoxCorners(h[0], h[6])

\* C2: for every axis-aligned box and the same point counts, the lattice of
\* the corner-based generator (returnBlockPoints) equals, point for point,
\* the outer product of the three evenly spaced axis sequences of the
\* offset-box construction (generate_ffd_box).
C2_SameLattice ==
    \A b \in 1..Len(points) :
        IsAligned(corners[b]) =>
            LET cs == AxisCoords([min |-> corners[b][0], max |-> corners[b][6]],
                                 <<nx[b], ny[b], nz[b]>>)
            IN  /\ DOMAIN points[b] =
                       (DOMAIN cs.x_coords) \X (DOMAIN cs.y_coords) \X (DOMAIN cs.z_coords)
                /\ \A p \in DOMAIN points[b] :
                       points[b][p] =
                           <<cs.x_coords[p[1]], cs.y_coords[p[2]], cs.z_coords[p[3]]>>

\* C2 witness: the lattice of an aligned box with distinct extents and an
\* interior point on every axis was computed
C2_Witness ==
    \E b \in 1..Len(points) :
        /\ IsAligned(corners[b])
        /\ corners[b][0] = Vec(0, 0, 1) /\ corners[b][6] = Vec(2, 2, 3)
        /\ nx[b] = 3 /\ ny[b] = 3 /\ nz[b] = 3
        /\ points[b][<<1, 1, 1>>] = Vec(1, 1, 2)

RECURSIVE FlattenFrom(_, _)
\* the tokens of lines l.., in file order
FlattenFrom(lines, l) ==
    IF l > Len(lines) THEN <<>> ELSE lines[l] \o FlattenFrom(lines, l + 1)

\* number of lattice points of block b of genXYZ.py
NPoints(b) == nx[b] * ny[b] * nz[b]

RECURSIVE TokensBefore(_)
\* number of coordinate tokens of the blocks before block b
TokensBefore(b) == IF b <= 1 THEN 0 ELSE TokensBefore(b - 1) + 3 * NPoints(b - 1)

\* C3: in every structured-grid file written by generate_ffd_box or
\* writeFFDFile each block's coordinates are three flat sequences, all x,
\* then all y, then all z, each of nx*ny*nz values, and the value of lattice
\* point (i,j,k) is at offset i + nx*(j + ny*k) of each sequence.  For
\* writeFFDFile the sequences are read off the stream of tokens after the
\* two header lines (one block: off lines 3, 4, 5); for generate_ffd_box off
\* lines 3, 4 and 5.
C3_FlatOrder ==
    /\ fileXYZ.exists =>
        LET L == fileXYZ.data
            body == FlattenFrom(L, 3)
        IN  /\ Len(body) = TokensBefore(nBlocks + 1)
            /\ \A b \in 1..nBlocks : \A p \in DOMAIN points[b] : \A c \in 1..3 :
                   body[TokensBefore(b) + (c - 1) * NPoints(b)
                        + p[1] + nx[b] * (p[2] + ny[b] * p[3]) + 1]
                       = Fmt6(points[b][p][c])
            /\ (nBlocks = 1 /\ NPoints(1) > 0) =>
                   /\ Len(L) = 5
                   /\ \A c \in 1..3 : Len(L[2 + c]) = NPoints(1)
    /\ outFile.exists =>
        LET L == outFile.data
            n == args.n
        IN  /\ Len(L) = 5
            /\ \A c \in 1..3 : Len(L[2 + c]) = n[1] * n[2] * n[3]
            /\ \A i \in 0..(n[1] - 1) : \A j \in 0..(n[2] - 1) : \A k \in 0..(n[3] - 1) :
                   LET off == i + n[1] * (j + n[2] * k)
                   IN  /\ L[3][off + 1] = Fmt6(coords.x_coords[i])
                       /\ L[4][off + 1] = Fmt6(coords.y_coords[j])
                       /\ L[5][off + 1] = Fmt6(coords.z_coords[k])

\* "0.000000", "1.000000", "2.000000"
Tok0 == <<48, 46, 48, 48, 48, 48, 48, 48>>

Tok1 == <<49, 46, 48, 48, 48, 48, 48, 48>>

Tok2 == <<50, 46, 48, 48, 48, 48, 48, 48>>

\* C3 witness: the box (0,0,0)..(2,0,0) with nx=3, ny=2, nz=2 was written:
\* the x sequence is 0,1,2 repeated over the 2 x 2 outer indices, and point
\* (i=1, j=0, k=0) is at offset 1
C3_Witness ==
    /\ outFile.exists
    /\ args.n = <<3, 2, 2>>
    /\ bounds.min = Vec(0, 0, 0) /\ bounds.max = Vec(2, 0, 0)
    /\ outFile.data[3] = <<Tok0, Tok1, Tok2, Tok0, Tok1, Tok2,
                           Tok0, Tok1, Tok2, Tok0, Tok1, Tok2>>
    /\ outFile.data[3][1 + 1] = Tok1

\* C4: a request with nx, ny or nz below 2 is rejected with a usage error
\* before any lattice point is computed and before any output file is
\* created.
C4_SmallCountRejected ==
    /\ \A b \in 1..nBlocks :
           (nx[b] < 2 \/ ny[b] < 2 \/ nz[b] < 2) =>
               /\ Len(points) < b
               /\ ~fileXYZ.exists
    /\ (ffdPc # "idle" /\ \E a \in 1..3 : args.n[a] < 2) =>
           /\ coords = NoCoords
           /\ ~outFile.exists
           /\ ffdPc = "exit" => exitCode # 0

\* the box generate_ffd_box subdivides: the bounds after the X overrides
\* and the margins
FinalBox ==
    OffsetBox(OverrideX(bounds, args.x_start, args.x_end),
              args.offset[1], args.offset[2], args.offset[3])

\* C5: if after the X overrides and the margins an axis has min >= max, the
\* request is rejected and no grid file is written.
C5_DegenerateBoxRejected ==
    (bounds.exc = "none" /\ \E a \in 1..3 : ~RLt(FinalBox.min[a], FinalBox.max[a]))
        => /\ ~outFile.exists
           /\ ffdPc = "exit" => exitCode # 0

\* the vertex coordinates of a mesh along axis a
MeshCoords(tris, a) == {tris[t].v[j][a] : t \in 1..Len(tris), j \in 1..3}

SmallestOf(S) == CHOOSE x \in S : \A y \in S : RLe(x, y)

LargestOf(S) == CHOOSE x \in S : \A y \in S : RLe(y, x)

\* C6: for every mesh with at least one triangle, in either encoding,
\* get_stl_bounds returns the per-axis minimum and maximum over all
\* vertices of all triangles.
C6_BoundsAreExtremes ==
    (ffdPc \notin {"idle", "bounds"} /\ mesh.intact /\ Len(mesh.tris) >= 1) =>
        /\ bounds.exc = "none"
        /\ \A a \in 1..3 :
               /\ bounds.min[a] = SmallestOf(MeshCoords(mesh.tris, a))
               /\ bounds.max[a] = LargestOf(MeshCoords(mesh.tris, a))

\* C7: every BoundingBox get_stl_bounds returns has min <= max on each axis.
C7_MinLeMax ==
    bounds.exc = "none" => \A a \in 1..3 : RLe(bounds.min[a], bounds.max[a])

\* the lower and upper bound of axis a the claim names: x_start / x_end when
\* given and the geometry bound otherwise on axis 1, the geometry bounds on
\* axes 2 and 3, widened by the margin
LowerOf(a) ==
    RSub(IF a = 1 /\ args.x_start # None THEN args.x_start[1] ELSE bounds.min[a],
         args.offset[a])

UpperOf(a) ==
    RAdd(IF a = 1 /\ args.x_end # None THEN args.x_end[1] ELSE bounds.max[a],
         args.offset[a])

AxisSeq(a) ==
    IF a = 1 THEN coords.x_coords ELSE IF a = 2 THEN coords.y_coords
    ELSE coords.z_coords

\* C8: the offset-box lattice point (i,j,k) is (X[i],Y[j],Z[k]); each axis
\* sequence holds the requested number of values, evenly spaced, from
\* (lower bound - margin) to (upper bound + margin) with both endpoints
\* included; the X bounds are x_start / x_end when given, the Y and Z bounds
\* are always the geometry bounds.  With bounds (0,0,0)..(1,1,1), no margins
\* and 2 x 2 x 2 points the lattice written is the 8 unit-cube corners, each
\* once.
C8_OffsetLattice ==
    /\ (ffdPc \in {"write", "exit"} /\ ffdExc = "none")
       => \A a \in 1..3 :
            LET n == args.n[a]
                X == AxisSeq(a)
            IN  /\ DOMAIN X = 0..(n - 1)
                /\ n >= 1 => (X[0] = LowerOf(a) /\ X[n - 1] = UpperOf(a))
                /\ \A i \in 0..(n - 2) :
                       RSub(X[i + 1], X[i]) = RDivInt(RSub(UpperOf(a), LowerOf(a)), n - 1)
    /\ (/\ outFile.exists
        /\ bounds.min = Vec(0, 0, 0) /\ bounds.max = Vec(1, 1, 1)
        /\ args = Args(<<2, 2, 2>>, ZeroOffset, None, None))
       => LET L == outFile.data
          IN  /\ Len(L[3]) = 8 /\ Len(L[4]) = 8 /\ Len(L[5]) = 8
              /\ {<<L[3][q], L[4][q], L[5][q]>> : q \in 1..8}
                     = {Tok0, Tok1} \X {Tok0, Tok1} \X {Tok0, Tok1}

\* C9: reading a truncated binary file returns no bounding box and ends in
\* one clearly labelled format error, not in the low-level struct.error of
\* a short read.
C9_TruncatedIsFormatError ==
    (ffdPc \notin {"idle", "bounds"} /\ mesh.enc = "binary" /\ ~mesh.intact) =>
        /\ bounds.exc \notin {"none", "struct.error"}
        /\ ffdPc = "exit" => exitCode # 0

\* C10: every well-formed text mesh is read by the text path and every
\* well-formed binary mesh by the binary path, whatever its header holds.
C10_DetectionCorrect ==
    (ffdPc \notin {"idle", "bounds"} /\ mesh.intact) =>
        stdout[1] = IF mesh.enc = "text" THEN "Reading ASCII STL file..."
                    ELSE "Reading binary STL file..."

-----------------------------------------------------------------------------
(* Claims about the scripts as processes                                   *)

\* no output file of the run exists (the output directory is not a file)
NoOutput ==
    /\ ~outFile.exists
    /\ ~asciiFile.exists
    /\ ~foamFile.exists
    /\ DOMAIN outputDir.files = {}

\* C11: every script is all-or-nothing: in a run that aborts, none of the
\* run's output files has been created or partly written; this holds for
\* generate_ffd_box, convert_stl, the main of xyz_to_openfoam and the main
\* of csv_to_vtk over several CSV files (an error on a later CSV leaves no
\* VTP file of an earlier one behind).
C11_AllOrNothing == exitCode > 0 => NoOutput

\* the run has ended without its result: the script's output file (for
\* csv_to_vtk the collection index) was not written
RunFailed ==
    \/ ffdPc = "exit" /\ ~outFile.exists
    \/ convPc = "exit" /\ ~asciiFile.exists
    \/ xyzPc = "exit" /\ ~foamFile.exists
    \/ vtkPc = "exit" /\ ~vtsFile.exists
    \/ csvPc = "exit" /\ PvdName \notin DOMAIN outputDir.files

\* C12: every script run that fails (input file absent, no input files
\* found, malformed input, invalid arguments) ends with a non-zero exit
\* status and a message on standard error; no failing run ends with exit
\* status 0 or reports its failure only on standard output.
C12_FailuresReported == RunFailed => exitCode > 0 /\ stderr # <<>>

-----------------------------------------------------------------------------
(* Claims about the structured-grid readers                                *)

\* a read back from the text of b: b rounded to six decimals, which differs
\* from b by at most half a unit of the sixth decimal
SameTo6(a, b) ==
    a = Norm(Sign(b[1]) * RoundHalfEven(Abs(b[1]) * Micro, b[2]), Micro)

SamePoint(p, q) == \A c \in 1..3 : SameTo6(p[c], q[c])

\* the shape of a three-dimensional array, as (nx, ny, nz) of shape (nz, ny, nx)
ShapeOf(a) ==
    <<Cardinality(DOMAIN a[0][0]), Cardinality(DOMAIN a[0]), Cardinality(DOMAIN a)>>

\* what parse_xyz_file returned is the lattice lat, row i + nx*(j + ny*k)
\* holding point (i, j, k)
ParsedIsLattice(pr, lat) ==
    /\ pr.exc = "none"
    /\ pr.dims = lat.n
    /\ DOMAIN pr.points = 0..(lat.n[1] * lat.n[2] * lat.n[3] - 1)
    /\ \A p \in DOMAIN lat.at :
           SamePoint(pr.points[p[1] + lat.n[1] * (p[2] + lat.n[2] * p[3])],
                     lat.at[p])

\* what readPlot3D returned is the lattice lat, element [k][j][i] of the
\* three arrays holding point (i, j, k)
GridIsLattice(g, lat) ==
    /\ g.exc = "none"
    /\ ShapeOf(g.x) = lat.n /\ ShapeOf(g.y) = lat.n /\ ShapeOf(g.z) = lat.n
    /\ \A p \in DOMAIN lat.at :
           SamePoint(<<g.x[p[3]][p[2]][p[1]], g.y[p[3]][p[2]][p[1]],
                       g.z[p[3]][p[2]][p[1]]>>,
                     lat.at[p])

\* C13: round trip of the structured-grid format: for every single-block
\* lattice with nx, ny, nz >= 2, writing it with writeFFDFile or
\* generate_ffd_box and parsing the file with parse_xyz_file or readPlot3D
\* returns the original nx, ny, nz and, for every (i,j,k), the original
\* coordinates of that lattice point (parse_xyz_file row i + nx*(j + ny*k),
\* readPlot3D element [k][j][i]), up to the decimal text precision.
C13_RoundTrip ==
    (lattice.written /\ \A a \in 1..3 : lattice.n[a] >= 2) =>
        /\ parsed.exc # "pending" => ParsedIsLattice(parsed, lattice)
        /\ grid.exc # "pending" => GridIsLattice(grid, lattice)

\* C13 witness: readPlot3D has read a written 3 x 2 x 2 lattice that holds a
\* coordinate with no finite decimal expansion, which came back rounded
C13_Witness ==
    /\ lattice.written
    /\ lattice.n = <<3, 2, 2>>
    /\ grid.exc = "none"
    /\ \E p \in DOMAIN lattice.at :
           /\ Micro % lattice.at[p][1][2] # 0
           /\ grid.x[p[3]][p[2]][p[1]] # lattice.at[p][1]

\* the file read declares nx, ny, nz and some channel of it does not hold
\* nx*ny*nz values
Miscounted ==
    /\ lattice.chan # <<>>
    /\ \E c \in 1..3 : lattice.chan[c] # lattice.n[1] * lattice.n[2] * lattice.n[3]

\* C14: a structured-grid file whose x, y or z channel holds a number of
\* values different from the declared nx*ny*nz (too few or too many) is
\* rejected with a format error by every reader of the format
\* (parse_xyz_file and readPlot3D); no reader accepts it by truncating
\* surplus values or shifting values between channels, and no output is
\* written from it.
C14_MiscountRejected ==
    Miscounted =>
        /\ parsed.exc \in {"pending", "ValueError"}
        /\ grid.exc \in {"pending", "ValueError"}
        /\ ~foamFile.exists
        /\ ~vtsFile.exists

-----------------------------------------------------------------------------
(* Claims about old_setup/convert_bin_to_ascii.py                          *)

\* 'facet'
KwFacet == <<102, 97, 99, 101, 116>>

\* the lines of a text file that begin, after stripping, with keyword kw
LinesWith(file, kw) ==
    SelectSeq(TextLines(file.data), LAMBDA l : StartsWith(Strip(l), kw))

\* |a - b| <= 1e-6 * |b|, or both the same infinity
RelClose(a, b) ==
    \/ a = b
    \/ /\ IsFinite(a) /\ IsFinite(b)
       /\ Abs(RSub(a, b)[1]) * Micro * b[2] <= Abs(b[1]) * RSub(a, b)[2]

\* the vertex lines vs hold, in order, the vertices of the triangles tris
SameVertices(vs, tris) ==
    /\ Len(vs) = 3 * Len(tris)
    /\ \A t \in 1..Len(tris) : \A j \in 1..3 : \A c \in 1..3 :
           /\ Len(Split(Strip(vs[3 * (t - 1) + j]))) = 4
           /\ ParseFloat(Split(Strip(vs[3 * (t - 1) + j]))[c + 1]).ok
           /\ RelClose(ParseFloat(Split(Strip(vs[3 * (t - 1) + j]))[c + 1]).val,
                       tris[t].v[j][c])

\* the bounds b read from a file are those of the triangles tris
SameBox(b, tris) ==
    /\ b.exc = "none"
    /\ tris # <<>> =>
           \A a \in 1..3 : /\ RelClose(b.min[a], SmallestOf(MeshCoords(tris, a)))
                           /\ RelClose(b.max[a], LargestOf(MeshCoords(tris, a)))

\* C15: binary-to-text round trip: for every valid binary surface mesh,
\* convert_stl writes a text file with exactly one facet per declared
\* triangle, in file order, each with its three vertices in order; that
\* text file is classified as text by is_ascii_stl (for any input file name
\* used as the solid name) and, read back, yields the same vertex
\* coordinates and therefore the same bounding box as the binary input,
\* within the stated rounding tolerance.
C15_TextRoundTrip ==
    (convMesh.intact /\ asciiFile.exists) =>
        /\ Len(LinesWith(asciiFile, KwFacet)) = Len(convMesh.tris)
        /\ SameVertices(LinesWith(asciiFile, KwVertex), convMesh.tris)
        /\ is_ascii_stl(asciiFile)
        /\ SameBox(get_stl_bounds(asciiFile), convMesh.tris)

-----------------------------------------------------------------------------
(* Claims about scripts/xyz_to_openfoam.py                                 *)

\* the tokens toks are "controlPoints n (" followed by n tuples "( x y z )"
\* and ");", tuple k holding the values at offset k of lines 3, 4 and 5 of
\* the structured-grid file, printed with eight significant digits
DictionaryOf(toks, n, lines) ==
    /\ Len(toks) = 3 + 5 * n + 1
    /\ SubSeq(toks, 1, 3) = <<KwControlPoints, FmtD(n), ParenOpen>>
    /\ toks[Len(toks)] = ListEnd
    /\ \A k \in 0..(n - 1) :
           /\ toks[3 + 5 * k + 1] = ParenOpen
           /\ \A c \in 1..3 :
                  toks[3 + 5 * k + 1 + c] = Fmt8g(ParseFloat(lines[2 + c][k + 1]).val)
           /\ toks[3 + 5 * k + 5] = ParenClose

\* nx*ny*nz as the second line of the file declares it
DeclaredCount(lines) ==
    ParseInt(lines[2][1]).val * ParseInt(lines[2][2]).val * ParseInt(lines[2][3]).val

\* C16: for every structured-grid file accepted by parse_xyz_file, the
\* solver dictionary written by write_openfoam_format declares a count
\* equal to nx*ny*nz and lists exactly that many 3-tuples, where the n-th
\* tuple is (x[n], y[n], z[n]) taken from the same flat offset n of the
\* three input channels (order preserved, no point dropped, duplicated or
\* reordered).
C16_DictionaryLists ==
    foamFile.exists =>
        DictionaryOf(FlattenFrom(foamFile.data, 1), DeclaredCount(xyzFile.data),
                     xyzFile.data)

\* C16 witness: the dictionary of the two-point file made by hand was
\* written; its second tuple is "( -0.333333 2.05 1e-05 )"
C16_Witness ==
    /\ foamFile.exists
    /\ lattice.n = <<2, 1, 1>>
    /\ foamFile.data[2] =
           <<ParenOpen,
             <<45, 48, 46, 51, 51, 51, 51, 51, 51>>,
             <<50, 46, 48, 53>>,
             <<49, 101, 45, 48, 53>>,
             ParenClose, ListEnd>>

-----------------------------------------------------------------------------
(* Claims about scripts/csv_to_vtk_converter.py                            *)

\* the coordinates of the rows of a CSV file as a VTP file shows them
PointsText(rows) ==
    [r \in 1..Len(rows) |-> <<Fmt6(rows[r][1]), Fmt6(rows[r][2]), Fmt6(rows[r][3])>>]

\* the collection index pvd lists the CSV files named, one entry each and
\* in their order; no two entries name one VTP file; the VTP file of an
\* entry holds the points of the CSV file of that entry
IndexOf(pvd, named, dir) ==
    /\ Len(pvd) = Len(named)
    /\ \A e \in 1..Len(pvd) : \A g \in 1..Len(pvd) :
           e # g => pvd[e].file # pvd[g].file
    /\ \A e \in 1..Len(pvd) :
           /\ pvd[e].timestep = FmtD(ParseInt(named[e].suffix).val)
           /\ pvd[e].file \in DOMAIN dir.files
           /\ dir.files[pvd[e].file].data.complete
           /\ dir.files[pvd[e].file].data.points = PointsText(named[e].rows)

\* C17: after csv_to_vtk main completes over any set of matching CSV files,
\* the collection index lists exactly one DataSet entry per CSV file whose
\* name suffix parses as an integer timestep (files whose suffix does not
\* parse are skipped and get no entry), and distinct entries name distinct
\* VTP files, each holding the control points of the CSV its entry was
\* created for (also when two file names denote the same integer, e.g.
\* suffixes '1' and '01').
C17_IndexPerCsv ==
    (csvPc = "exit" /\ PvdName \in DOMAIN outputDir.files) =>
        IndexOf(outputDir.files[PvdName].data,
                SelectSeq(SortedFiles(inputDir), LAMBDA f : ParseInt(f.suffix).ok),
                outputDir)

=============================================================================
